---- MODULE Spec2Model ----
(***************************************************************************)
(* State-machine model of the search-engine repository:                    *)
(*   - the polling crawl job (backend/crawler_jobs.py),                    *)
(*   - the store-backed search engine (backend/mongo_search.py),           *)
(*   - the file-backed build / hybrid_rank path (backend/mini_search.py).  *)
(***************************************************************************)
EXTENDS Integers, Sequences, FiniteSets, TLC

VARIABLES
    site,              \* the web site being crawled (environment)
    jobs_collection,   \* db.crawler_jobs: the persisted job records
    pages_collection,  \* db.crawled_pages as written by _save_page
    inv,               \* the running process_job_batch invocation (locals)
    ret,               \* what the last process_job_batch call returned
    ops,               \* side effects performed by the last step
    fetchLog,          \* every session.get made so far, with its outcome
    USE_MONGODB,       \* server.py: which search path answers queries
    collection,        \* db.crawled_pages as read by MongoSearchEngine
    index_cache,       \* MongoSearchEngine.index_cache (<<>> is None)
    last_doc_count,    \* MongoSearchEngine.last_doc_count
    built,             \* what the last index build was given and gave back
    pages_dir,         \* out_dir/pages/*.json, the crawled page files
    index_files,       \* index.json, postings.jsonl, pagerank.json (<<>>: none)
    result,            \* the outcome of the last query-time call
    store_up,          \* the document store answers (environment)
    api_engine,        \* api/*.py: mongo_search_engine is not None
    api_cache,         \* api/*.py: index_cache, last_doc_count of each function
    response,          \* the HTTP response of the last endpoint call
    crawler,           \* crawler_ws.py: the WebCrawler of the streaming session
    ws_open,           \* the WebSocket connection is open (environment)
    ws_log,            \* every message handed to _send_ws, in order
    ws_fetches,        \* every session.get of the streaming session
    other,             \* a second process_job_batch call on the job, waiting
    norm,              \* a URL, norm_url of it, and norm_url of that
    mc,                \* mini_search.crawl: the locals of the crawl
    mc_log,            \* every fetch attempt of the crawl, with its times
    now,               \* time.time(), in quarters of a second
    aborts             \* how many process_job_batch calls were cut off

jobVars == <<site, jobs_collection, pages_collection, inv, ret, ops, fetchLog>>

searchVars == <<USE_MONGODB, collection, index_cache, last_doc_count, built,
                pages_dir, index_files, result>>

apiVars == <<store_up, api_engine, api_cache, response>>

\* the state of the parts of the program modelled further down
wsVars == <<crawler, ws_open, ws_log, ws_fetches>>

\* the state of the parts modelled after the endpoints
crawlVars == <<mc, mc_log, now>>

moreVars == <<wsVars, other, norm, crawlVars, aborts>>

laterVars == <<apiVars, moreVars>>

vars == <<jobVars, searchVars, laterVars>>

(***************************************************************************)
(* Bounds of the model                                                     *)
(***************************************************************************)
MaxPagesBound == 4      \* max_pages is drawn from 0..MaxPagesBound
MaxDepthBound == 2      \* max_depth is drawn from 0..MaxDepthBound
MaxBatch      == 2      \* batch_size is drawn from 1..MaxBatch

(***************************************************************************)
(* Program constants                                                       *)
(***************************************************************************)
QueueCap     == 100     \* len(job['queue']) < 100
LinksPerPage == 10      \* links[:10]
AnchorLimit  == 20      \* soup.find_all('a', href=True)[:20]

(***************************************************************************)
(* URLs.  A URL is the record urlsplit() would give, with the port split   *)
(* off the netloc.  Strings are kept as written (case, fragment, order of  *)
(* the query parameters), since the crawler compares raw strings.          *)
(***************************************************************************)
U(host, port, path, query, frag) ==
    [scheme |-> "http", host |-> host, port |-> port, path |-> path,
     query |-> query, frag |-> frag]

NoUrl == [scheme |-> "", host |-> "", port |-> "", path |-> "",
          query |-> <<>>, frag |-> ""]

\* str.lower() on the host names of the model
LowerHost(h) ==
    CASE h = "A.COM" -> "a.com"
      [] h = "B.COM" -> "b.com"
      [] OTHER -> h

\* "&".join(sorted(filter(None, pu.query.split("&")))) on the parameters
\* "", "x=1" and "y=2"
SortQuery(q) ==
    SelectSeq(q, LAMBDA p : p = "x=1") \o SelectSeq(q, LAMBDA p : p = "y=2")

\* urlsplit(u).scheme: the scheme comes back in lower case
LowerScheme(sch) ==
    CASE sch = "HTTP" -> "http"
      [] sch = "HTTPS" -> "https"
      [] OTHER -> sch

\* urljoin("/", path): dot segments are resolved
JoinRoot(path) ==
    CASE path = "/x/../p2" -> "/p2"
      [] path = "/./p2" -> "/p2"
      [] OTHER -> path

norm_url_KeepPort(u) ==
    [scheme |-> LowerScheme(u.scheme), host |-> LowerHost(u.host),
     port |-> u.port, path |-> JoinRoot(IF u.path = "" THEN "/" ELSE u.path),
     query |-> SortQuery(u.query), frag |-> ""]

\* mini_search.norm_url: lowercase netloc, strip the default port, path or
\* "/" joined to the root, sorted non-empty query parameters, no fragment.
norm_url(u) ==
    [scheme |-> LowerScheme(u.scheme),
     host   |-> LowerHost(u.host),
     port   |-> IF (LowerScheme(u.scheme) = "http" /\ u.port = "80")
                   \/ (LowerScheme(u.scheme) = "https" /\ u.port = "443")
                THEN "" ELSE u.port,
     path   |-> JoinRoot(IF u.path = "" THEN "/" ELSE u.path),
     query  |-> SortQuery(u.query),
     frag   |-> ""]

\* urlparse(url).netloc
Netloc(u) == <<u.host, u.port>>

\* CrawlerJobManager._is_valid_url
_is_valid_url(url, base_url) ==
    /\ url.scheme \in {"http", "https"}
    /\ Netloc(url) = Netloc(base_url)


(***************************************************************************)
(* The crawled web site (environment).  A site gives, for each path it     *)
(* serves, the anchors of that page after urljoin(url, href).              *)
(***************************************************************************)
A(path) == U("a.com", "", path, <<>>, "")

\* the paths of the pages the hub links to
HubPaths == <<"/h1", "/h2", "/h3", "/h4", "/h5", "/h6", "/h7", "/h8", "/h9",
              "/h10", "/h11", "/h12", "/h13", "/h14", "/h15", "/h16", "/h17",
              "/h18", "/h19", "/h20", "/h21", "/h22", "/h23", "/h24", "/h25">>

Sites == <<
    \* the same pages under several spellings, and links leaving the host
    [start |-> A("/"),
     pages |-> [p \in {"/", "/p2", "/p3"} |->
        CASE p = "/"   -> << A("/p2"), U("a.com", "", "/p2", <<>>, "top"),
                             U("b.com", "", "/x", <<>>, ""),
                             U("A.COM", "", "/p2", <<>>, ""),
                             U("a.com", "80", "/p2", <<>>, "") >>
          [] p = "/p2" -> << U("a.com", "", "/", <<>>, "nav"),
                             U("a.com", "", "/p3", <<"y=2", "x=1">>, ""),
                             U("a.com", "", "/p3", <<"x=1", "y=2">>, "") >>
          [] OTHER     -> << >>]],
    \* a cycle, with a link repeated on one page
    [start |-> A("/"),
     pages |-> [p \in {"/", "/p2", "/p3"} |->
        CASE p = "/"   -> << A("/"), A("/p2"), A("/p2") >>
          [] p = "/p2" -> << A("/"), A("/p3") >>
          [] OTHER     -> << A("/p2") >>]],
    \* five pages, two levels
    [start |-> A("/"),
     pages |-> [p \in {"/", "/p2", "/p3", "/p4", "/p5"} |->
        CASE p = "/"   -> << A("/p2"), A("/p3"), A("/p2") >>
          [] p = "/p2" -> << A("/p4") >>
          [] p = "/p3" -> << A("/p5"), A("/p2") >>
          [] p = "/p4" -> << A("/") >>
          [] OTHER     -> << >>]],
    \* five pages, a star
    [start |-> A("/"),
     pages |-> [p \in {"/", "/p2", "/p3", "/p4", "/p5"} |->
        CASE p = "/"   -> << A("/p2"), A("/p3"), A("/p4"), A("/p5") >>
          [] OTHER     -> << A("/") >>]],
    \* five pages, one of them linked under two spellings
    [start |-> A("/"),
     pages |-> [p \in {"/", "/p2", "/p3", "/p4", "/p5"} |->
        CASE p = "/"   -> << A("/p2"), U("a.com", "", "/p2", <<>>, "top"),
                             A("/p3") >>
          [] p = "/p2" -> << A("/p4") >>
          [] p = "/p3" -> << A("/p5") >>
          [] OTHER     -> << >>]],
    \* a hub: every page carries 25 anchors
    [start |-> A("/"),
     pages |-> [p \in {"/"} \cup {HubPaths[i] : i \in 1..Len(HubPaths)} |->
        IF p = "/"
        THEN [i \in 1..Len(HubPaths) |-> A(HubPaths[IF i = 1 THEN 1 ELSE i - 1])]
        ELSE [i \in 1..Len(HubPaths) |->
                 A(HubPaths[((i + 9) % Len(HubPaths)) + 1])]]]
>>

\* the sites with a handful of pages, and the hub
SmallSites == 1..(Len(Sites) - 1)
HubSite == Len(Sites)

\* the sites whose start URL reaches exactly five in-scope pages
FiveSites == {3, 4, 5}

\* the anchors of the page the server sends for `url`
Hrefs(s, url) ==
    LET p == norm_url(url).path
    IN  IF p \in DOMAIN Sites[s].pages THEN Sites[s].pages[p] ELSE << >>

\* the anchors of the off-site page a redirect ends on, joined to `url`
OffsiteHrefs(url) == << A("/ext"), U("b.com", "", "/y", <<>>, "") >>

\* what one session.get can come to
Outcomes == {"ok", "network_error", "http_error", "non_html", "empty_text",
             "redirect_out"}

\* the outcomes the design classifies as a failed page
FailureOutcomes == Outcomes \ {"ok"}

Min(a, b) == IF a < b THEN a ELSE b

Prefix(s, n) == SubSeq(s, 1, Min(n, Len(s)))

Contains(s, x) == \E i \in 1..Len(s) : s[i] = x

NoPage == << >>

ValidLinks(anchors, url, base_url) ==
    LET first == Prefix(anchors, AnchorLimit)
    IN  SelectSeq(first, LAMBDA l : _is_valid_url(l, base_url))

\* CrawlerJobManager._crawl_page: (page_data, links) for one fetch outcome.
\* page_data is <<>> for None and <<record>> otherwise.
_crawl_page(s, url, base_url, outcome) ==
    CASE outcome \in {"network_error", "http_error"} ->
            [page_data |-> NoPage, links |-> << >>]
      [] outcome = "ok" ->
            [page_data |-> << [title |-> [kind |-> "text", v |-> url.path],
                               text |-> "body"] >>,
             links |-> ValidLinks(Hrefs(s, url), url, base_url)]
      [] outcome = "empty_text" ->
            [page_data |-> << [title |-> [kind |-> "text", v |-> url.path],
                               text |-> ""] >>,
             links |-> ValidLinks(Hrefs(s, url), url, base_url)]
      [] outcome = "non_html" ->
            [page_data |-> << [title |-> [kind |-> "url", v |-> url],
                               text |-> "body"] >>,
             links |-> << >>]
      [] OTHER ->  \* redirect_out: the off-site page is parsed like any other
            [page_data |-> << [title |-> [kind |-> "text", v |-> "offsite"],
                               text |-> "body"] >>,
             links |-> ValidLinks(OffsiteHrefs(url), url, base_url)]

_save_page_AlwaysInsert(pages, url, page_data, depth, parent, start_url) ==
    Append(pages, [url |-> url, title |-> page_data.title,
                   text |-> page_data.text, depth |-> depth,
                   parent_url |-> parent, start_url |-> start_url])

\* CrawlerJobManager._save_page: insert unless a page with this url exists
_save_page(pages, url, page_data, depth, parent, start_url) ==
    IF \E i \in 1..Len(pages) : pages[i].url = url
    THEN pages
    ELSE Append(pages, [url |-> url, title |-> page_data.title,
                        text |-> page_data.text, depth |-> depth,
                        parent_url |-> parent, start_url |-> start_url])


(***************************************************************************)
(* Text.  A string is a sequence of one-character strings.                 *)
(***************************************************************************)
Letters == {"a", "b", "f", "l", "m", "o", "p", "r", "t", "u"}
Capitals == {"A", "B", "F"}
Digits == {"1", "2"}

\* the characters TOKEN_RE = [A-Za-z0-9]+ matches
IsAlnum(c) == c \in Letters \cup Capitals \cup Digits

\* str.lower() on one character
LowerChar(c) ==
    CASE c = "A" -> "a"
      [] c = "B" -> "b"
      [] c = "F" -> "f"
      [] OTHER -> c

RECURSIVE Lower(_)
Lower(s) == IF s = << >> THEN << >> ELSE << LowerChar(Head(s)) >> \o Lower(Tail(s))

RECURSIVE TokenRuns(_, _, _)
TokenRuns(s, cur, acc) ==
    LET closed == IF cur = << >> THEN acc ELSE Append(acc, cur)
    IN  IF s = << >> THEN closed
        ELSE IF IsAlnum(Head(s))
             THEN TokenRuns(Tail(s), Append(cur, LowerChar(Head(s))), acc)
             ELSE TokenRuns(Tail(s), << >>, closed)

\* tokenize: the lowercased maximal runs of ASCII letters and digits
tokenize(s) == TokenRuns(s, << >>, << >>)

\* a in b, for strings
IsSubstring(a, b) ==
    \E i \in 0..(Len(b) - Len(a)) : SubSeq(b, i + 1, i + Len(a)) = a

\* b.startswith(a)
StartsWith(b, a) == Len(a) <= Len(b) /\ SubSeq(b, 1, Len(a)) = a

\* str.strip() for the blank of the model
RECURSIVE LStrip(_)
LStrip(s) == IF s # << >> /\ Head(s) = " " THEN LStrip(Tail(s)) ELSE s

RECURSIVE RStrip(_)
RStrip(s) ==
    IF s # << >> /\ s[Len(s)] = " " THEN RStrip(SubSeq(s, 1, Len(s) - 1)) ELSE s

Strip(s) == RStrip(LStrip(s))

\* the distinct elements of a list, in order of first occurrence (the key
\* order of a Counter or dict filled from the list)
RECURSIVE DistinctInOrder(_, _)
DistinctInOrder(s, acc) ==
    IF s = << >> THEN acc
    ELSE DistinctInOrder(Tail(s),
                         IF Contains(acc, Head(s)) THEN acc ELSE Append(acc, Head(s)))

\* Counter(tokens)[t]
CountOf(tokens, t) == Cardinality({i \in 1..Len(tokens) : tokens[i] = t})

RECURSIVE Flatten(_)
Flatten(ss) == IF ss = << >> THEN << >> ELSE Head(ss) \o Flatten(Tail(ss))

RECURSIVE SumSeq(_)
SumSeq(s) == IF s = << >> THEN 0 ELSE Head(s) + SumSeq(Tail(s))

\* the sequence f(1), ..., f(n), built eagerly
RECURSIVE Tabulate(_, _, _)
Tabulate(f(_), i, n) ==
    IF i > n THEN << >> ELSE << f(i) >> \o Tabulate(f, i + 1, n)

\* 1000 * math.log(n / d), rounded, for the arguments the idf formulas meet:
\* (N - df + 0.5) / (df + 0.5) + 1 = (2N + 2) / (2df + 1)
Ln1000(n, d) ==
    CASE n = 4 /\ d = 3 -> 288
      [] n = 6 /\ d = 3 -> 693
      [] n = 6 /\ d = 5 -> 182
      [] n = 8 /\ d = 3 -> 981
      [] n = 8 /\ d = 5 -> 470
      [] n = 8 /\ d = 7 -> 134
      [] n = 10 /\ d = 3 -> 1204
      [] n = 10 /\ d = 5 -> 693
      [] n = 10 /\ d = 7 -> 357
      [] n = 10 /\ d = 9 -> 105
      [] n = 12 /\ d = 3 -> 1386
      [] n = 12 /\ d = 5 -> 875
      [] n = 12 /\ d = 7 -> 539
      [] n = 12 /\ d = 9 -> 288
      [] n = 12 /\ d = 11 -> 87
      [] n = 14 /\ d = 3 -> 1540
      [] n = 14 /\ d = 5 -> 1030
      [] n = 14 /\ d = 7 -> 693
      [] n = 14 /\ d = 9 -> 442
      [] n = 14 /\ d = 11 -> 241
      [] n = 14 /\ d = 13 -> 74

(***************************************************************************)
(* The crawl job (CrawlerJobManager)                                       *)
(***************************************************************************)
NoTitle == [kind |-> "none", v |-> ""]

IdleInv == [pc |-> "idle", job |-> << >>, processed |-> 0, batch_size |-> 0,
            start_time |-> 0, found |-> << >>]

Stored == jobs_collection[1]

IsCompleted_Never(job) == FALSE

\* line 58: a completed job is returned as stored
IsCompleted(job) == job.status = "completed"

MaxPagesReached_OffByOne(job) == Len(job.visited) > job.max_pages

\* line 77: stop if max pages reached
MaxPagesReached(job) == Len(job.visited) >= job.max_pages

\* line 87: skip if already visited (raw string comparison)
AlreadyVisited(job, url) == Contains(job.visited, url)

FinalStatus_QueueOnly(job) ==
    IF job.queue = << >> THEN "completed" ELSE "pending"

\* lines 144-147: the status the job is left in
FinalStatus(job) ==
    IF job.queue = << >> \/ Len(job.visited) >= job.max_pages
    THEN "completed" ELSE "pending"

RECURSIVE EnqueueLinks_SameDepth(_, _, _, _, _)
EnqueueLinks_SameDepth(queue, links, visited, depth, url) ==
    IF links = << >> THEN queue
    ELSE EnqueueLinks_SameDepth(
             IF ~Contains(visited, Head(links)) /\ Len(queue) < QueueCap
             THEN Append(queue, [url |-> Head(links), depth |-> depth,
                                 parent |-> url])
             ELSE queue,
             Tail(links), visited, depth, url)

RECURSIVE EnqueueLinks_NoCap(_, _, _, _, _)
EnqueueLinks_NoCap(queue, links, visited, depth, url) ==
    IF links = << >> THEN queue
    ELSE EnqueueLinks_NoCap(
             IF ~Contains(visited, Head(links))
             THEN Append(queue, [url |-> Head(links), depth |-> depth + 1,
                                 parent |-> url])
             ELSE queue,
             Tail(links), visited, depth, url)

\* lines 118-124: for link in links: append when unvisited and queue < 100
RECURSIVE EnqueueLinks(_, _, _, _, _)
EnqueueLinks(queue, links, visited, depth, url) ==
    IF links = << >> THEN queue
    ELSE LET link == Head(links)
             q2 == IF ~Contains(visited, link) /\ Len(queue) < QueueCap
                   THEN Append(queue, [url |-> link, depth |-> depth + 1,
                                       parent |-> url])
                   ELSE queue
         IN  EnqueueLinks(q2, Tail(links), visited, depth, url)

QueueAfterPage_DepthInverted(job, queue, links, visited, depth, url) ==
    IF depth > job.max_depth
    THEN EnqueueLinks(queue, Prefix(links, LinksPerPage), visited, depth, url)
    ELSE queue

\* lines 116-124: the queue after a crawled page
QueueAfterPage(job, queue, links, visited, depth, url) ==
    IF depth < job.max_depth
    THEN EnqueueLinks(queue, Prefix(links, LinksPerPage), visited, depth, url)
    ELSE queue

\* lines 136-141 (the wall-clock duration is left out)
UpdatedStats(job) ==
    [total_pages     |-> Len(job.visited),
     completed_pages |-> Cardinality({i \in 1..Len(job.nodes) :
                                        job.nodes[i].status = "completed"}),
     queue_size      |-> Len(job.queue)]

\* create_job, lines 27-44: the job record as inserted
NewJob(s, max_depth, max_pages) ==
    [start_url |-> Sites[s].start, max_depth |-> max_depth,
     max_pages |-> max_pages, status |-> "pending",
     stats |-> [total_pages |-> 0, completed_pages |-> 0, queue_size |-> 1],
     queue |-> << [url |-> Sites[s].start, depth |-> 0, parent |-> NoUrl] >>,
     visited |-> << >>, nodes |-> << >>]

\* create_job
CreateJob(s, max_depth, max_pages) ==
    /\ jobs_collection = << >>
    /\ inv.pc = "idle"
    /\ site' = s
    /\ jobs_collection' = << NewJob(s, max_depth, max_pages) >>
    /\ ops' = {"job_insert"}
    /\ UNCHANGED <<pages_collection, inv, ret, fetchLog,
                 searchVars, laterVars>>

\* process_job_batch, lines 54-56: no such job
BatchNotFound ==
    /\ inv.pc = "idle"
    /\ jobs_collection = << >>
    /\ ret' = << [error |-> "Job not found"] >>
    /\ ops' = {}
    /\ UNCHANGED <<site, jobs_collection, pages_collection, inv, fetchLog,
                 searchVars, laterVars>>

\* process_job_batch, lines 58-59: the job is completed already
BatchOnCompleted ==
    /\ inv.pc = "idle"
    /\ jobs_collection # << >>
    /\ IsCompleted(Stored)
    /\ ret' = << Stored >>
    /\ ops' = {}
    /\ UNCHANGED <<site, jobs_collection, pages_collection, inv, fetchLog,
                 searchVars, laterVars>>

\* process_job_batch, lines 54-68: read the job, mark it running
BatchStart(batch_size) ==
    /\ inv.pc = "idle"
    /\ jobs_collection # << >>
    /\ ~IsCompleted(Stored)
    /\ jobs_collection' = << [Stored EXCEPT !.status = "running"] >>
    /\ inv' = [pc |-> "loop", job |-> << Stored >>, processed |-> 0,
               batch_size |-> batch_size, start_time |-> now,
               found |-> << Stored >>]
    /\ ops' = {"job_write"}
    /\ UNCHANGED <<site, pages_collection, ret, fetchLog,
                 searchVars, laterVars>>

\* line 71: while job['queue'] and processed < batch_size
LoopCondition ==
    /\ inv.job[1].queue # << >>
    /\ inv.processed < inv.batch_size

\* lines 81-88: pop an entry that is visited already, continue
LoopSkipVisited ==
    /\ inv.pc = "loop"
    /\ LoopCondition
    /\ ~MaxPagesReached(inv.job[1])
    /\ LET job == inv.job[1]
           current == Head(job.queue)
       IN  /\ AlreadyVisited(job, current.url)
           /\ inv' = [inv EXCEPT !.job = << [job EXCEPT !.queue = Tail(job.queue)] >>]
    /\ ops' = {}
    /\ UNCHANGED <<site, jobs_collection, pages_collection, ret, fetchLog,
                 searchVars, laterVars>>

NodeAfterCrawl_LeftCrawling(current, r) ==
    IF r.page_data # NoPage
    THEN [url |-> current.url, depth |-> current.depth, status |-> "completed",
          parent |-> current.parent, title |-> r.page_data[1].title,
          linkCount |-> Len(r.links)]
    ELSE [url |-> current.url, depth |-> current.depth, status |-> "crawling",
          parent |-> current.parent, title |-> NoTitle, linkCount |-> -1]

\* lines 91-130: the node of a popped entry once _crawl_page has returned:
\* completed with title and linkCount, or error (no title, no linkCount)
NodeAfterCrawl(current, r) ==
    IF r.page_data # NoPage
    THEN [url |-> current.url, depth |-> current.depth, status |-> "completed",
          parent |-> current.parent, title |-> r.page_data[1].title,
          linkCount |-> Len(r.links)]
    ELSE [url |-> current.url, depth |-> current.depth, status |-> "error",
          parent |-> current.parent, title |-> NoTitle, linkCount |-> -1]

\* lines 81-132: pop an unvisited entry, crawl it, record the result
LoopCrawl(outcome) ==
    /\ inv.pc = "loop"
    /\ LoopCondition
    /\ ~MaxPagesReached(inv.job[1])
    /\ LET job     == inv.job[1]
           current == Head(job.queue)
           url     == current.url
           depth   == current.depth
           parent  == current.parent
           visited == Append(job.visited, url)
           r       == _crawl_page(site, url, job.start_url, outcome)
           ok      == r.page_data # NoPage
           node    == NodeAfterCrawl(current, r)
           queue   == IF ok
                      THEN QueueAfterPage(job, Tail(job.queue), r.links, visited,
                                          depth, url)
                      ELSE Tail(job.queue)
           pages   == IF ok
                      THEN _save_page(pages_collection, url, r.page_data[1],
                                      depth, parent, job.start_url)
                      ELSE pages_collection
       IN  /\ ~AlreadyVisited(job, url)
           /\ inv' = [inv EXCEPT
                        !.job = << [job EXCEPT !.queue = queue,
                                               !.visited = visited,
                                               !.nodes = Append(job.nodes, node)] >>,
                        !.processed = inv.processed + 1]
           /\ pages_collection' = pages
           /\ fetchLog' = Append(fetchLog, [url |-> url, depth |-> depth,
                                            outcome |-> outcome])
           /\ ops' = {"fetch"} \cup
                     (IF pages # pages_collection THEN {"page_write"} ELSE {})
    /\ UNCHANGED <<site, jobs_collection, ret,
                 searchVars, laterVars>>

\* lines 71-78 and 134-164: the loop ends (its condition fails, the time
\* budget is used up, or max_pages is reached); stats, status, save, return
BatchFinish(timed_out) ==
    /\ inv.pc = "loop"
    /\ \/ ~LoopCondition
       \/ timed_out
       \/ MaxPagesReached(inv.job[1])
    /\ LET job  == inv.job[1]
           done == [job EXCEPT !.stats = UpdatedStats(job),
                               !.status = FinalStatus(job)]
       IN  /\ jobs_collection' =
                << [Stored EXCEPT !.status = done.status, !.stats = done.stats,
                                  !.queue = done.queue, !.visited = done.visited,
                                  !.nodes = done.nodes] >>
           /\ ret' = << done >>
    /\ inv' = IdleInv
    /\ ops' = {"job_write"}
    /\ UNCHANGED <<site, pages_collection, fetchLog,
                 searchVars, laterVars>>

NoBuild == [called |-> FALSE, n_docs |-> 0, count |-> 0, rebuilt |-> FALSE,
            had_cache |-> FALSE, prev_count |-> 0]

NoResult == [kind |-> "none", raised |-> FALSE, k |-> 0, matched |-> 0,
             rows |-> << >>, stats |-> << >>,
             suggestions |-> << >>]

\* no crawl job is at work
JobInit ==
    /\ site = 1
    /\ jobs_collection = << >>
    /\ pages_collection = << >>
    /\ inv = IdleInv
    /\ ret = << >>
    /\ ops = {}
    /\ fetchLog = << >>

\* no search engine is at work
SearchInit ==
    /\ collection = << >>
    /\ index_cache = << >>
    /\ last_doc_count = 0
    /\ built = NoBuild
    /\ pages_dir = << >>
    /\ index_files = << >>
    /\ result = NoResult

\* api/*.py, lines 15-22: the functions start with an engine and no index
ApiHandlers == {"search", "suggest", "stats"}

NoResponse == [endpoint |-> "none", status |-> 0, error |-> FALSE,
               unavailable |-> FALSE, total |-> 0]

ApiInit ==
    /\ store_up = TRUE
    /\ api_engine = TRUE
    /\ api_cache = [h \in ApiHandlers |-> [cache |-> << >>, last |-> 0]]
    /\ response = NoResponse

\* no streaming session has started
IdleCrawler == [pc |-> "idle"]

WsInit ==
    /\ crawler = IdleCrawler
    /\ ws_open = TRUE
    /\ ws_log = << >>
    /\ ws_fetches = << >>

NoNorm == [step |-> 0, u |-> NoUrl, once |-> NoUrl, twice |-> NoUrl]

\* mini_search.crawl has not been called
CrawlInit ==
    /\ mc = [pc |-> "idle"]
    /\ mc_log = << >>
    /\ now = 0

MoreInit ==
    WsInit /\ other = IdleInv /\ norm = NoNorm /\ CrawlInit /\ aborts = 0

LaterInit == ApiInit /\ MoreInit

Init ==
    /\ JobInit
    /\ SearchInit
    /\ USE_MONGODB = TRUE
    /\ LaterInit

Next ==
    \/ \E s \in SmallSites, d \in 0..MaxDepthBound, m \in 0..MaxPagesBound :
          CreateJob(s, d, m)
    \/ BatchNotFound
    \/ BatchOnCompleted
    \/ \E b \in 1..MaxBatch : BatchStart(b)
    \/ LoopSkipVisited
    \/ \E o \in Outcomes : LoopCrawl(o)
    \/ \E t \in BOOLEAN : BatchFinish(t)

Spec == Init /\ [][Next]_vars


(***************************************************************************)
(* The documents the search engines index.  Scores are kept in fixed       *)
(* point: idf in 1/1000, BM25 and final scores in 1/10000, PageRank in     *)
(* 1/1000000; divisions round down.                                        *)
(***************************************************************************)
Corpus == <<
    [url |-> <<"u", "1">>, title |-> <<"A", " ", "b">>, text |-> << >>,
     snippet |-> << >>, links |-> << <<"u", "2">>, <<"u", "3">> >>],
    [url |-> <<"u", "2">>, title |-> <<"B">>, text |-> << >>,
     snippet |-> << >>, links |-> << >>],
    [url |-> <<"u", "3">>, title |-> <<"a">>, text |-> << >>,
     snippet |-> << >>, links |-> << >>],
    [url |-> <<"u", "a">>, title |-> << >>, text |-> <<"f", "o", "r", " ", "b", "-", "b">>,
     snippet |-> <<"f", "o", "r">>,
     links |-> << <<"u", "1">>, <<"u", "a">>, <<"u", "9">>, <<"u", "1">> >>]
>>

\* the indices of the documents whose url is `url`
UrlMatches(docs, url) == {i \in 1..Len(docs) : docs[i].url = url}

\* url_to_idx.get(url): a later document overwrites an earlier one; 0: absent
UrlToIdx(docs, url) ==
    IF UrlMatches(docs, url) = {} THEN 0
    ELSE CHOOSE i \in UrlMatches(docs, url) : \A k \in UrlMatches(docs, url) : k <= i

\* the vocabulary in dict insertion order: first occurrence over all documents
Vocabulary(doc_tokens) == DistinctInOrder(Flatten(doc_tokens), << >>)

\* the postings of a term: (document, term frequency), documents ascending
RECURSIVE PostingsOf(_, _, _)
PostingsOf(doc_tokens, term, i) ==
    IF i > Len(doc_tokens) THEN << >>
    ELSE (IF Contains(doc_tokens[i], term)
          THEN << [doc |-> i, tf |-> CountOf(doc_tokens[i], term)] >>
          ELSE << >>) \o PostingsOf(doc_tokens, term, i + 1)

\* term -> postings, as a list in insertion order of the terms
InvertedIndex(doc_tokens) ==
    LET vocab == Vocabulary(doc_tokens)
    IN  Tabulate(LAMBDA k : [term |-> vocab[k],
                             postings |-> PostingsOf(doc_tokens, vocab[k], 1)],
                 1, Len(vocab))

\* math.log((N - df + 0.5) / (df + 0.5) + 1.0), in 1/1000
IdfOf(N, df) == Ln1000(2 * N + 2, 2 * df + 1)

IdfTable(inverted_index, N) ==
    Tabulate(LAMBDA k : [term |-> inverted_index[k].term,
                         idf |-> IdfOf(N, Len(inverted_index[k].postings))],
             1, Len(inverted_index))

\* the position of a term in a term-keyed list, 0 when absent
TermIdx(table, term) ==
    IF \E k \in 1..Len(table) : table[k].term = term
    THEN CHOOSE k \in 1..Len(table) : table[k].term = term
    ELSE 0

(***************************************************************************)
(* MongoSearchEngine                                                       *)
(***************************************************************************)
PrDamping == 85          \* damping = 0.85, in 1/100
PrIterations == 20       \* iterations = 20
PrUnit == 1000000        \* the rank 1.0

\* _calculate_pagerank, lines 137-144: links to known documents, no self-link
RECURSIVE OutlinksOf(_, _, _)
OutlinksOf(docs, i, links) ==
    IF links = << >> THEN << >>
    ELSE LET t == UrlToIdx(docs, Head(links))
         IN  (IF t # 0 /\ t # i THEN << t >> ELSE << >>)
             \o OutlinksOf(docs, i, Tail(links))

MongoOutlinks(docs) ==
    Tabulate(LAMBDA i : OutlinksOf(docs, i, docs[i].links), 1, Len(docs))

\* lines 152-155: one round of the power iteration
MongoPrRound(pr, outlinks) ==
    LET N == Len(pr)
        rank_sum(i) ==
            SumSeq(Tabulate(LAMBDA j : IF Contains(outlinks[j], i)
                                       THEN pr[j] \div Len(outlinks[j]) ELSE 0,
                            1, N))
    IN  Tabulate(LAMBDA i : ((100 - PrDamping) * (PrUnit \div 100)) \div N
                            + (PrDamping * rank_sum(i)) \div 100,
                 1, N)

RECURSIVE MongoPrIterate(_, _, _)
MongoPrIterate(pr, outlinks, rounds) ==
    IF rounds = 0 THEN pr
    ELSE MongoPrIterate(MongoPrRound(pr, outlinks), outlinks, rounds - 1)

\* MongoSearchEngine._calculate_pagerank
_calculate_pagerank(docs) ==
    LET N == Len(docs)
    IN  IF N = 0 THEN << >>
        ELSE MongoPrIterate(Tabulate(LAMBDA i : PrUnit \div N, 1, N),
                            MongoOutlinks(docs), PrIterations)

\* lines 69-93: the tokens of a document: title, blank, text or else snippet
MongoDocTokens(doc) ==
    LET content == IF doc.text # << >> THEN doc.text ELSE Prefix(doc.snippet, 200)
    IN  tokenize(doc.title \o << " " >> \o content)

\* lines 73, 82-90: the Document record kept in the index
MongoDocument(doc) ==
    LET snip == Prefix(doc.snippet, 200)
    IN  [url |-> doc.url, title |-> doc.title,
         length |-> Len(MongoDocTokens(doc)),
         snippet |-> IF snip = << >> /\ doc.text # << >>
                     THEN Prefix(doc.text, 200) ELSE snip]

\* lines 63-124: the index built from the documents found (avgdl is kept as
\* the total length, to be divided by the number of documents)
MongoIndex(docs) ==
    LET doc_tokens == Tabulate(LAMBDA i : MongoDocTokens(docs[i]), 1, Len(docs))
        inverted == InvertedIndex(doc_tokens)
    IN  [docs |-> Tabulate(LAMBDA i : MongoDocument(docs[i]), 1, Len(docs)),
         doclen |-> Tabulate(LAMBDA i : Len(doc_tokens[i]), 1, Len(docs)),
         total_len |-> Len(Flatten(doc_tokens)),
         idf |-> IdfTable(inverted, Len(docs)),
         inverted_index |-> inverted,
         pagerank |-> _calculate_pagerank(docs)]

(***************************************************************************)
(* Ranking shared by MongoSearchEngine.search and hybrid_rank              *)
(***************************************************************************)
MaxDocs == 3             \* at most MaxDocs documents are stored or crawled

DefaultAlpha == 200      \* alpha = 0.2
DefaultBeta == 800       \* beta = 0.8
DefaultTitleBoost == 500 \* title_boost = 0.5

\* the queries of the model: two terms, one term, a prefix, no term at all
Queries == { <<"a", " ", "B">>, <<"b">>, <<"f", "o">>, <<"-">> }

\* the values of k of the model
Ks == {-1, 0, 1, 10}

PySlice_OneMore(s, k) ==
    IF k >= 0 THEN Prefix(s, k + 1)
    ELSE IF Len(s) + k > 0 THEN SubSeq(s, 1, Len(s) + k) ELSE << >>

\* s[:k] in Python: a negative k counts from the end
PySlice(s, k) ==
    IF k >= 0 THEN Prefix(s, k)
    ELSE IF Len(s) + k > 0 THEN SubSeq(s, 1, Len(s) + k) ELSE << >>

MaxOf(S) == CHOOSE x \in S : \A y \in S : y <= x
MinOf(S) == CHOOSE x \in S : \A y \in S : x <= y

\* pr_norm: min-max normalised PageRank of a document, in 1/1000
PrNorm(pagerank, d) ==
    LET vals == {pagerank[i] : i \in 1..Len(pagerank)}
        mn == IF vals = {} THEN 0 ELSE MinOf(vals)
        mx == IF vals = {} THEN PrUnit ELSE MaxOf(vals)
    IN  IF mx - mn = 0 THEN 0
        ELSE (((IF d \in 1..Len(pagerank) THEN pagerank[d] ELSE 0) - mn) * 1000)
             \div (mx - mn)

\* title_match_score: 1.0 for a title token, 0.8 inside a title token, 0.6
\* inside the URL; title_boost * matches / len(qterms), in 1/1000
TitleMatchScore(doc, qterms, title_boost) ==
    LET title_tokens == tokenize(Lower(doc.title))
        url_lower == Lower(doc.url)
        one(qt) == IF Contains(title_tokens, qt) THEN 10
                   ELSE IF \E i \in 1..Len(title_tokens) :
                              IsSubstring(qt, title_tokens[i]) THEN 8
                   ELSE IF IsSubstring(qt, url_lower) THEN 6
                   ELSE 0
        matches == SumSeq(Tabulate(LAMBDA i : one(qterms[i]), 1, Len(qterms)))
    IN  IF matches = 0 THEN 0
        ELSE (title_boost * matches) \div (10 * Len(qterms))

\* bm * (alpha + beta * pr_norm + title_match_score)
FinalScore(bm, pagerank, doc, d, qterms, alpha, beta, title_boost) ==
    bm * (alpha + (beta * PrNorm(pagerank, d)) \div 1000
          + TitleMatchScore(doc, qterms, title_boost))

RECURSIVE InsertByScore(_, _)
InsertByScore(sorted, item) ==
    IF sorted = << >> THEN << item >>
    ELSE IF Head(sorted).score >= item.score
         THEN << Head(sorted) >> \o InsertByScore(Tail(sorted), item)
         ELSE << item >> \o sorted

RECURSIVE SortFrom(_, _)
SortFrom(items, sorted) ==
    IF items = << >> THEN sorted
    ELSE SortFrom(Tail(items), InsertByScore(sorted, Head(items)))

\* sorted(scores.items(), key=lambda x: x[1], reverse=True): a stable sort,
\* items of equal score stay in the order the dict yields them
SortByScoreDesc(items) == SortFrom(items, << >>)

(***************************************************************************)
(* MongoSearchEngine: _build_index, search, get_stats                      *)
(***************************************************************************)
UseCache_IgnoreCount(cache, last, current_count) == cache # << >>

\* line 45 (force_rebuild is False in every caller)
UseCache(cache, last, current_count) ==
    cache # << >> /\ last = current_count

\* _build_index: the index returned (<<>> is None) and the cache afterwards
_build_index(docs, cache, last) ==
    LET current_count == Len(docs)
    IN  IF UseCache(cache, last, current_count)
        THEN [idx |-> cache, cache |-> cache, last |-> last, rebuilt |-> FALSE]
        ELSE IF docs = << >>
        THEN [idx |-> << >>, cache |-> cache, last |-> last, rebuilt |-> FALSE]
        ELSE LET fresh == CHOOSE x \in { << MongoIndex(docs) >> } : TRUE
             IN  [idx |-> fresh, cache |-> fresh, last |-> current_count,
                  rebuilt |-> TRUE]

\* what `built` records of a _build_index call
BuildRecord(b, docs, cache, last) ==
    [called |-> TRUE,
     n_docs |-> IF b.idx = << >> THEN -1 ELSE Len(b.idx[1].docs),
     count |-> Len(docs), rebuilt |-> b.rebuilt,
     had_cache |-> cache # << >>, prev_count |-> last]

\* search, lines 187-215: BM25 of one document over the query terms
RECURSIVE MongoBm25(_, _, _)
MongoBm25(idx, d, qterms) ==
    IF qterms = << >> THEN 0
    ELSE LET t == TermIdx(idx.inverted_index, Head(qterms))
             ps == IF t = 0 THEN << >>
                   ELSE SelectSeq(idx.inverted_index[t].postings,
                                  LAMBDA p : p.doc = d)
             tf == IF ps = << >> THEN 0 ELSE ps[1].tf
             N == Len(idx.docs)
             \* k1 = 1.5, b = 0.75: tf * 2.5 / (tf + 1.5 * (0.25 + 0.75 * dl / avgdl))
             term_score ==
                 IF tf = 0 THEN 0
                 ELSE (idx.idf[t].idf * 200 * tf * idx.total_len)
                      \div (8 * idx.total_len * tf + 3 * idx.total_len
                            + 9 * idx.doclen[d] * N)
         IN  term_score + MongoBm25(idx, d, Tail(qterms))

\* lines 188-215: the documents with a positive BM25 score, by index
RECURSIVE MongoBmScores(_, _, _)
MongoBmScores(idx, d, qterms) ==
    IF d > Len(idx.docs) THEN << >>
    ELSE (IF MongoBm25(idx, d, qterms) > 0
          THEN << [doc_idx |-> d, score |-> MongoBm25(idx, d, qterms)] >>
          ELSE << >>) \o MongoBmScores(idx, d + 1, qterms)

\* lines 252-256
MongoFinalScores(idx, bm, qterms, alpha, beta, title_boost) ==
    Tabulate(LAMBDA i :
                [doc_idx |-> bm[i].doc_idx,
                 score |-> FinalScore(bm[i].score, idx.pagerank,
                                      idx.docs[bm[i].doc_idx], bm[i].doc_idx,
                                      qterms, alpha, beta, title_boost)],
             1, Len(bm))

\* lines 259-260: the rows returned; doc_idx is kept beside the Document
ResultRows(docs, top) ==
    Tabulate(LAMBDA i : [doc |-> docs[top[i].doc_idx], score |-> top[i].score,
                         doc_idx |-> top[i].doc_idx],
             1, Len(top))

\* search, lines 175-256 and the sort of line 259: the matching documents
\* in the order sorted() leaves them, before the slice
MongoRanked(idxs, query, alpha, beta, title_boost) ==
    LET qterms == tokenize(query)
    IN  IF idxs = << >> \/ qterms = << >>
        THEN << >>
        ELSE LET idx == idxs[1]
                 bm == MongoBmScores(idx, 1, qterms)
             IN  SortByScoreDesc(MongoFinalScores(idx, bm, qterms, alpha, beta,
                                                  title_boost))

\* lines 259-260: the slice [:k] and the list returned
MongoSearchOn(idxs, ranked, k) ==
    [matched |-> Len(ranked),
     rows |-> IF idxs = << >> THEN << >>
              ELSE ResultRows(idxs[1].docs, PySlice(ranked, k))]

\* a crawler stores a page (find, then insert when absent)
InsertDoc(doc) ==
    /\ USE_MONGODB
    /\ Len(collection) < MaxDocs
    /\ UrlMatches(collection, doc.url) = {}
    /\ collection' = Append(collection, doc)
    /\ result' = NoResult
    /\ UNCHANGED <<USE_MONGODB, index_cache, last_doc_count, built, pages_dir,
                   index_files, jobVars, laterVars>>

\* a stored page is deleted (retention is the store's policy)
DeleteDoc(i) ==
    /\ USE_MONGODB
    /\ i \in 1..Len(collection)
    /\ collection' = SubSeq(collection, 1, i - 1)
                     \o SubSeq(collection, i + 1, Len(collection))
    /\ result' = NoResult
    /\ UNCHANGED <<USE_MONGODB, index_cache, last_doc_count, built, pages_dir,
                   index_files, jobVars, laterVars>>

\* server.search -> MongoSearchEngine.search(query, alpha, beta, k), for each
\* query and k of the model
MongoSearch ==
    /\ USE_MONGODB
    /\ \E b \in {_build_index(collection, index_cache, last_doc_count)} :
       \E query \in Queries :
       \E ranked \in {MongoRanked(b.idx, query, DefaultAlpha, DefaultBeta,
                                  DefaultTitleBoost)} :
       \E k \in Ks :
       \E r \in {MongoSearchOn(b.idx, ranked, k)} :
           /\ index_cache' = b.cache
           /\ last_doc_count' = b.last
           /\ built' = BuildRecord(b, collection, index_cache, last_doc_count)
           /\ result' = [kind |-> "search", raised |-> FALSE, k |-> k,
                         matched |-> r.matched, rows |-> r.rows, stats |-> << >>,
                 suggestions |-> << >>]
    /\ UNCHANGED <<USE_MONGODB, collection, pages_dir, index_files, jobVars, laterVars>>

\* get_stats, lines 264-276
StatsOf(idxs) ==
    IF idxs = << >>
    THEN [total_docs |-> 0, total_len |-> 0, vocab_size |-> 0]
    ELSE [total_docs |-> Len(idxs[1].docs), total_len |-> idxs[1].total_len,
          vocab_size |-> Len(idxs[1].idf)]

\* server.stats -> MongoSearchEngine.get_stats
MongoGetStats ==
    /\ USE_MONGODB
    /\ \E b \in {_build_index(collection, index_cache, last_doc_count)} :
           /\ index_cache' = b.cache
           /\ last_doc_count' = b.last
           /\ built' = BuildRecord(b, collection, index_cache, last_doc_count)
           /\ result' = [kind |-> "stats", raised |-> FALSE, k |-> 0,
                         matched |-> 0, rows |-> << >>,
                         stats |-> << StatsOf(b.idx) >>,
                         suggestions |-> << >>]
    /\ UNCHANGED <<USE_MONGODB, collection, pages_dir, index_files, jobVars, laterVars>>

\* the prefixes and limits of the suggestion calls of the model
Prefixes == { << >>, <<"b">>, <<"a", " ">>, <<"F", "o">>, <<"f", "-", "o", "r">> }

Limits == {0, 1, 8}

\* ''.join(c for c in s if c.isalnum())
OnlyAlnum(s) == SelectSeq(s, IsAlnum)

\* _fuzzy_match: the characters of pattern appear in text, in order
RECURSIVE _fuzzy_match(_, _)
_fuzzy_match(pattern, text) ==
    IF pattern = << >> THEN TRUE
    ELSE IF text = << >> THEN FALSE
    ELSE IF Head(text) = Head(pattern)
         THEN _fuzzy_match(Tail(pattern), Tail(text))
         ELSE _fuzzy_match(pattern, Tail(text))

TermTier_LastMatch(term, prefix_lower, prefix_normalized) ==
    IF Len(prefix_normalized) >= 3 /\ _fuzzy_match(prefix_normalized, term) THEN 3
    ELSE IF IsSubstring(prefix_lower, term) /\ Len(prefix_lower) >= 3 THEN 2
    ELSE IF Len(prefix_normalized) >= 3 /\ StartsWith(term, prefix_normalized)
    THEN 1
    ELSE IF StartsWith(term, prefix_lower) THEN 0
    ELSE 4

\* lines 289-302: the priority a term gets, 4 when it does not match
TermTier(term, prefix_lower, prefix_normalized) ==
    IF StartsWith(term, prefix_lower) THEN 0
    ELSE IF Len(prefix_normalized) >= 3 /\ StartsWith(term, prefix_normalized)
    THEN 1
    ELSE IF IsSubstring(prefix_lower, term) /\ Len(prefix_lower) >= 3 THEN 2
    ELSE IF Len(prefix_normalized) >= 3 /\ _fuzzy_match(prefix_normalized, term)
    THEN 3
    ELSE 4

\* lines 289-302: matching_terms, in the order of idx['idf']
RECURSIVE MatchingTerms(_, _, _, _)
MatchingTerms(idf, i, prefix_lower, prefix_normalized) ==
    IF i > Len(idf) THEN << >>
    ELSE LET tier == TermTier(idf[i].term, prefix_lower, prefix_normalized)
         IN  (IF tier < 4
              THEN << [term |-> idf[i].term, tier |-> tier, idf |-> idf[i].idf] >>
              ELSE << >>)
             \o MatchingTerms(idf, i + 1, prefix_lower, prefix_normalized)

\* line 305: list.sort(key=(priority, idf)), a stable sort
RECURSIVE InsertByTier(_, _)
InsertByTier(sorted, item) ==
    IF sorted = << >> THEN << item >>
    ELSE IF \/ Head(sorted).tier < item.tier
            \/ Head(sorted).tier = item.tier /\ Head(sorted).idf <= item.idf
         THEN << Head(sorted) >> \o InsertByTier(Tail(sorted), item)
         ELSE << item >> \o sorted

RECURSIVE SortByTier(_, _)
SortByTier(items, sorted) ==
    IF items = << >> THEN sorted
    ELSE SortByTier(Tail(items), InsertByTier(sorted, Head(items)))

\* lines 309-320: the lowercased titles that hold the prefix, until there
\* are limit // 2 of them
RECURSIVE TitleSuggestions(_, _, _, _, _, _)
TitleSuggestions(docs, i, prefix_lower, prefix_normalized, limit, acc) ==
    IF i > Len(docs) THEN acc
    ELSE LET title_lower == Lower(docs[i].title)
             title_normalized == OnlyAlnum(title_lower)
             hit == \/ IsSubstring(prefix_lower, title_lower)
                    \/ /\ Len(prefix_normalized) >= 3
                       /\ IsSubstring(prefix_normalized, title_normalized)
             acc2 == Append(acc, title_lower)
         IN  IF hit /\ ~Contains(acc, title_lower)
             THEN IF Len(acc2) >= limit \div 2 THEN acc2
                  ELSE TitleSuggestions(docs, i + 1, prefix_lower,
                                        prefix_normalized, limit, acc2)
             ELSE TitleSuggestions(docs, i + 1, prefix_lower,
                                   prefix_normalized, limit, acc)

\* lines 304-306: term_suggestions, the first limit * 2 terms by priority
SuggestTerms(idx, prefix, limit) ==
    LET prefix_lower == Lower(prefix)
        matching_terms ==
            SortByTier(MatchingTerms(idx.idf, 1, prefix_lower,
                                     OnlyAlnum(prefix_lower)), << >>)
        top == PySlice(matching_terms, limit * 2)
    IN  Tabulate(LAMBDA i : top[i].term, 1, Len(top))

\* lines 309-320: title_suggestions
SuggestTitles(idx, prefix, limit) ==
    TitleSuggestions(idx.docs, 1, Lower(prefix), OnlyAlnum(Lower(prefix)),
                     limit, << >>)

AddTerms_NoSeenCheck(all, terms, limit) ==
    IF terms = << >> \/ Len(all) >= limit THEN all
    ELSE all \o PySlice(terms, limit - Len(all))

\* lines 331-334: a term is added when unseen and the list is below limit
RECURSIVE AddTerms(_, _, _)
AddTerms(all, terms, limit) ==
    IF terms = << >> THEN all
    ELSE AddTerms(IF ~Contains(all, Head(terms)) /\ Len(all) < limit
                  THEN Append(all, Head(terms)) ELSE all,
                  Tail(terms), limit)

\* get_suggestions on the index _build_index returned
get_suggestions(idxs, prefix, limit) ==
    IF idxs = << >> THEN << >>
    ELSE LET all_suggestions ==
                 AddTerms(DistinctInOrder(SuggestTitles(idxs[1], prefix, limit),
                                          << >>),
                          SuggestTerms(idxs[1], prefix, limit), limit)
         IN  PySlice(all_suggestions, limit)

\* server.suggest -> MongoSearchEngine.get_suggestions(prefix, limit), for
\* a prefix and a limit, on the index b that _build_index returns; the
\* title and term candidates are kept beside the list returned
GetSuggestions(b, prefix, limit) ==
    /\ USE_MONGODB
    /\ index_cache' = b.cache
    /\ last_doc_count' = b.last
    /\ built' = BuildRecord(b, collection, index_cache, last_doc_count)
    /\ result' = [kind |-> "suggest", raised |-> FALSE, k |-> limit,
                  matched |-> 0, rows |-> << >>, stats |-> << >>,
                  suggestions |-> get_suggestions(b.idx, prefix, limit),
                  titles |-> IF b.idx = << >> THEN << >>
                             ELSE SuggestTitles(b.idx[1], prefix, limit),
                  terms |-> IF b.idx = << >> THEN << >>
                            ELSE SuggestTerms(b.idx[1], prefix, limit)]
    /\ UNCHANGED <<USE_MONGODB, collection, pages_dir, index_files, jobVars, laterVars>>

MongoGetSuggestions ==
    \E b \in {_build_index(collection, index_cache, last_doc_count)} :
    \E prefix \in Prefixes, limit \in Limits : GetSuggestions(b, prefix, limit)

(***************************************************************************)
(* The file-backed path: mini_search.build, load_index, hybrid_rank        *)
(***************************************************************************)
PrMaxIter == 100         \* max_iter = 100

\* " ".join(tokens)
RECURSIVE JoinBlank(_)
JoinBlank(toks) ==
    IF toks = << >> THEN << >>
    ELSE IF Len(toks) = 1 THEN toks[1]
    ELSE toks[1] \o << " " >> \o JoinBlank(Tail(toks))

\* build, lines 343-348: the outlinks that are known urls (a link of a page
\* to itself is kept)
RECURSIVE FileOuts(_, _)
FileOuts(pages, links) ==
    IF links = << >> THEN << >>
    ELSE (IF UrlToIdx(pages, Head(links)) # 0
          THEN << UrlToIdx(pages, Head(links)) >> ELSE << >>)
         \o FileOuts(pages, Tail(links))

FileGraph(pages) ==
    Tabulate(LAMBDA i : FileOuts(pages, pages[i].links), 1, Len(pages))

\* pagerank, lines 381-391: one round; sinks spread their rank over all
FilePrRound(pr, outlinks) ==
    LET N == Len(pr)
        sink_sum == SumSeq(Tabulate(LAMBDA i : IF outlinks[i] = << >> THEN pr[i] ELSE 0,
                                    1, N))
        base == ((100 - PrDamping) * (PrUnit \div 100)) \div N
        sink_add == ((PrDamping * sink_sum) \div 100) \div N
        w(j) == ((PrDamping * pr[j]) \div 100) \div Len(outlinks[j])
        received(i) ==
            SumSeq(Tabulate(LAMBDA j : IF outlinks[j] = << >> THEN 0
                                       ELSE CountOf(outlinks[j], i) * w(j),
                            1, N))
    IN  Tabulate(LAMBDA i : base + sink_add + received(i), 1, N)

Abs(x) == IF x < 0 THEN -x ELSE x

\* lines 380-394: iterate until the summed change is below tol (less than
\* one unit of the fixed point) or max_iter rounds are done
RECURSIVE FilePrIterate(_, _, _)
FilePrIterate(pr, outlinks, rounds) ==
    IF rounds = 0 THEN pr
    ELSE LET new == FilePrRound(pr, outlinks)
             delta == SumSeq(Tabulate(LAMBDA i : Abs(new[i] - pr[i]), 1, Len(pr)))
         IN  IF delta < 1 THEN new
             ELSE FilePrIterate(new, outlinks, rounds - 1)

\* mini_search.pagerank
pagerank(outlinks, n) ==
    IF n = 0 THEN << >>
    ELSE FilePrIterate(Tabulate(LAMBDA i : PrUnit \div n, 1, n), outlinks, PrMaxIter)

\* build, lines 332-337
FileDocTokens(page) == tokenize(page.title \o << " " >> \o page.text)

FileDocument(page) ==
    [url |-> page.url,
     title |-> IF Strip(page.title) # << >> THEN Strip(page.title) ELSE page.url,
     length |-> Len(FileDocTokens(page)),
     snippet |-> JoinBlank(Prefix(FileDocTokens(page), 30))]

\* build, lines 318-370: what index.json, postings.jsonl and pagerank.json
\* hold for a non-empty set of page files
FileIndex(pages) ==
    LET doc_tokens == Tabulate(LAMBDA i : FileDocTokens(pages[i]), 1, Len(pages))
        postings == InvertedIndex(doc_tokens)
    IN  [docs |-> Tabulate(LAMBDA i : FileDocument(pages[i]), 1, Len(pages)),
         doclen |-> Tabulate(LAMBDA i : Len(doc_tokens[i]), 1, Len(pages)),
         total_len |-> Len(Flatten(doc_tokens)),
         idf |-> IdfTable(postings, Len(pages)),
         postings |-> postings,
         pr |-> pagerank(FileGraph(pages), Len(pages))]

\* build, lines 310-316: without page files build returns before it writes
BuildWrites(pages) == pages # << >>

\* scores[d] += x on a dict kept as a list in insertion order
AddScore(scores, d, x) ==
    IF \E i \in 1..Len(scores) : scores[i].doc_idx = d
    THEN [i \in 1..Len(scores) |->
            IF scores[i].doc_idx = d
            THEN [doc_idx |-> d, score |-> scores[i].score + x] ELSE scores[i]]
    ELSE Append(scores, [doc_idx |-> d, score |-> x])

\* bm25_scores, lines 406-408: the postings of one term
RECURSIVE AddPostings(_, _, _, _)
AddPostings(scores, idx, t, plist) ==
    IF plist = << >> THEN scores
    ELSE LET d == Head(plist).doc
             tf == Head(plist).tf
             \* k1 = 1.2, b = 0.75: tf * 2.2 / (tf + 1.2 * (1 + 0.75 * (dl / avgdl - 1)))
             x == (idx.idf[t].idf * 220 * tf * idx.total_len)
                  \div (10 * idx.total_len * tf + 3 * idx.total_len
                        + 9 * idx.doclen[d] * Len(idx.docs))
         IN  AddPostings(AddScore(scores, d, x), idx, t, Tail(plist))

\* bm25_scores, lines 399-409: the postings file is read term by term
RECURSIVE FileBmScores(_, _, _, _)
FileBmScores(scores, idx, terms, t) ==
    IF t > Len(idx.postings) THEN scores
    ELSE FileBmScores(IF Contains(terms, idx.postings[t].term)
                      THEN AddPostings(scores, idx, t, idx.postings[t].postings)
                      ELSE scores,
                      idx, terms, t + 1)

bm25_scores(idx, query_terms) ==
    LET terms == SelectSeq(query_terms, LAMBDA q : TermIdx(idx.idf, q) # 0)
    IN  IF terms = << >> THEN << >>
        ELSE FileBmScores(<< >>, idx, terms, 1)

\* hybrid_rank, lines 429-471: the matching documents in the order sorted()
\* leaves them, before the slice
HybridRanked(idx, query, alpha, beta, title_boost) ==
    LET qterms == tokenize(query)
        bm == bm25_scores(idx, qterms)
        scores == Tabulate(LAMBDA i :
                    [doc_idx |-> bm[i].doc_idx,
                     score |-> FinalScore(bm[i].score, idx.pr,
                                          idx.docs[bm[i].doc_idx], bm[i].doc_idx,
                                          qterms, alpha, beta, title_boost)],
                    1, Len(bm))
    IN  IF bm = << >> THEN << >> ELSE SortByScoreDesc(scores)

\* lines 471-472: the slice [:k] and the list returned
HybridRankOn(idx, ranked, k) ==
    [matched |-> Len(ranked), rows |-> ResultRows(idx.docs, PySlice(ranked, k))]

\* crawl, lines 280-289: a fetched page is written to pages/
CrawlWritePage(doc) ==
    /\ ~USE_MONGODB
    /\ Len(pages_dir) < MaxDocs
    /\ UrlMatches(pages_dir, doc.url) = {}
    /\ pages_dir' = Append(pages_dir, doc)
    /\ result' = NoResult
    /\ UNCHANGED <<USE_MONGODB, collection, index_cache, last_doc_count, built,
                   index_files, jobVars, laterVars>>

\* build(out_dir)
Build ==
    /\ ~USE_MONGODB
    /\ index_files' = IF BuildWrites(pages_dir)
                      THEN << FileIndex(pages_dir) >> ELSE index_files
    /\ built' = [called |-> TRUE,
                 n_docs |-> IF index_files' = << >> THEN -1
                            ELSE Len(index_files'[1].docs),
                 count |-> Len(pages_dir), rebuilt |-> BuildWrites(pages_dir),
                 had_cache |-> index_files # << >>,
                 prev_count |-> IF index_files = << >> THEN 0
                                ELSE Len(index_files[1].docs)]
    /\ result' = NoResult
    /\ UNCHANGED <<USE_MONGODB, collection, index_cache, last_doc_count,
                   pages_dir, jobVars, laterVars>>

\* server.search -> hybrid_rank(query, DATA_DIR, alpha, beta, k), for each
\* query and k of the model: load_index opens index.json and raises when
\* build never wrote it
HybridRank ==
    /\ ~USE_MONGODB
    /\ \E query \in Queries :
       \E ranked \in {IF index_files = << >> THEN << >>
                      ELSE HybridRanked(index_files[1], query, DefaultAlpha,
                                        DefaultBeta, DefaultTitleBoost)} :
       \E k \in Ks :
         result' =
           IF index_files = << >>
           THEN [kind |-> "search", raised |-> TRUE, k |-> k, matched |-> 0,
                 rows |-> << >>, stats |-> << >>,
                 suggestions |-> << >>]
           ELSE LET r == HybridRankOn(index_files[1], ranked, k)
                IN  [kind |-> "search", raised |-> FALSE, k |-> k,
                     matched |-> r.matched, rows |-> r.rows, stats |-> << >>,
                 suggestions |-> << >>]
    /\ UNCHANGED <<USE_MONGODB, collection, index_cache, last_doc_count, built,
                   pages_dir, index_files, jobVars, laterVars>>

\* server.stats on the file-backed path: load_index, then the three counts
FileStats ==
    /\ ~USE_MONGODB
    /\ result' =
         IF index_files = << >>
         THEN [kind |-> "stats", raised |-> TRUE, k |-> 0, matched |-> 0,
               rows |-> << >>, stats |-> << >>,
                 suggestions |-> << >>]
         ELSE [kind |-> "stats", raised |-> FALSE, k |-> 0, matched |-> 0,
               rows |-> << >>,
               stats |-> << [total_docs |-> Len(index_files[1].docs),
                             total_len |-> index_files[1].total_len,
                             vocab_size |-> Len(index_files[1].idf)] >>,
               suggestions |-> << >>]
    /\ UNCHANGED <<USE_MONGODB, collection, index_cache, last_doc_count, built,
                   pages_dir, index_files, jobVars, laterVars>>

InitSearch ==
    /\ JobInit
    /\ SearchInit
    /\ USE_MONGODB \in BOOLEAN
    /\ LaterInit

NextSearch ==
    \/ \E i \in 1..Len(Corpus) : InsertDoc(Corpus[i])
    \/ \E i \in 1..MaxDocs : DeleteDoc(i)
    \/ MongoSearch
    \/ MongoGetStats
    \/ MongoGetSuggestions
    \/ \E i \in 1..Len(Corpus) : CrawlWritePage(Corpus[i])
    \/ Build
    \/ HybridRank
    \/ FileStats

SpecSearch == InitSearch /\ [][NextSearch]_vars

(***************************************************************************)
(* Resuming a crawl of five pages one URL per call: every fetch returns a  *)
(* page, the caller keeps calling, and no call runs out of time before its *)
(* first fetch.                                                            *)
(***************************************************************************)
\* max_pages of the resumed job: the number of pages its site has (five)
ResumeMaxPages == Cardinality(DOMAIN Sites[3].pages)

ResumeDepths == {2, 3, 4}

InitResume ==
    /\ site \in FiveSites
    /\ \E d \in ResumeDepths :
          jobs_collection = << NewJob(site, d, ResumeMaxPages) >>
    /\ pages_collection = << >>
    /\ inv = IdleInv
    /\ ret = << >>
    /\ ops = {}
    /\ fetchLog = << >>
    /\ SearchInit
    /\ USE_MONGODB = TRUE
    /\ LaterInit

NextResume ==
    \/ BatchOnCompleted
    \/ BatchStart(1)
    \/ LoopSkipVisited
    \/ LoopCrawl("ok")
    \/ BatchFinish(FALSE)

SpecResume == InitResume /\ [][NextResume]_vars /\ WF_vars(NextResume)

(***************************************************************************)
(* Claims                                                                  *)
(***************************************************************************)
\* the job records there are: the stored one and the one being worked on
JobCopies ==
    (IF jobs_collection = << >> THEN {} ELSE {Stored}) \cup
    (IF inv.pc = "loop" THEN {inv.job[1]} ELSE {})

\* the job as the running call sees it, else as stored
CurJob == IF inv.pc = "loop" THEN inv.job[1] ELSE Stored

NoDuplicates(seq, key(_)) ==
    \A i, k \in 1..Len(seq) : i # k => key(seq[i]) # key(seq[k])

\* C1: a job never visits the same normalized URL twice: no two entries of
\* visited, and no two entries of nodes, are equal after URL normalization.
C1_NoNormalizedRevisit ==
    \A j \in JobCopies :
        /\ NoDuplicates(j.visited, norm_url)
        /\ NoDuplicates(j.nodes, LAMBDA n : norm_url(n.url))

\* C2: in every state reachable by create_job and process_job_batch calls,
\* len(visited) <= max_pages.
C2_VisitedWithinMaxPages ==
    \A j \in JobCopies : Len(j.visited) <= j.max_pages

\* C2 witness: the cap took effect: max_pages URLs visited, more queued
C2_Witness ==
    /\ jobs_collection # << >>
    /\ inv.pc = "idle"
    /\ Stored.max_pages > 0
    /\ Len(Stored.visited) = Stored.max_pages
    /\ Stored.queue # << >>

\* C3: five reachable pages, max_pages = 5, batch_size = 1: repeated calls
\* eventually leave the job completed with stats.total_pages = 5.
C3_ResumeCompletes ==
    <>(/\ Stored.status = "completed"
       /\ Stored.stats.total_pages = 5)

\* C3 witness: completed with five pages after at least five calls
C3_Witness ==
    /\ Stored.status = "completed"
    /\ Stored.stats.total_pages = 5
    /\ Len(fetchLog) = 5
    /\ inv.pc = "idle"

\* C4: a step taken on a job whose stored status is completed fetches
\* nothing, writes nothing, leaves the job record and the pages as they are
\* and returns the stored job.
C4_CompletedIsNoOp ==
    [][(jobs_collection # << >> /\ Stored.status = "completed")
        => /\ jobs_collection' = jobs_collection
           /\ pages_collection' = pages_collection
           /\ fetchLog' = fetchLog
           /\ ops' = {}
           /\ ret' = << Stored >>]_vars

\* C4 witness: a call on a completed job has returned
C4_Witness ==
    /\ jobs_collection # << >>
    /\ Stored.status = "completed"
    /\ inv.pc = "idle"
    /\ ops = {}
    /\ ret = << Stored >>

\* the last call returned a job (not "Job not found")
ReturnedJob == ret # << >> /\ "status" \in DOMAIN ret[1]

\* C5: after a call has returned, the stored status is completed exactly
\* when the queue is empty or len(visited) >= max_pages, pending otherwise,
\* and so never running.
C5_StatusAfterReturn ==
    (inv.pc = "idle" /\ ReturnedJob /\ jobs_collection # << >>)
    => Stored.status =
         (IF Stored.queue = << >> \/ Len(Stored.visited) >= Stored.max_pages
          THEN "completed" ELSE "pending")

\* C5 witness: a call returned and left the job pending, with work queued
C5_Witness ==
    /\ inv.pc = "idle"
    /\ ReturnedJob
    /\ jobs_collection # << >>
    /\ Stored.status = "pending"
    /\ Stored.visited # << >>
    /\ Stored.queue # << >>

\* C6: a failed page (network error, non-HTML content, empty text, redirect
\* out of scope) is a skip: it stays visited, its node is marked error, it
\* is not stored, and none of its links is enqueued.
C6_FailedPageIsSkip ==
    jobs_collection # << >> =>
    \A i \in 1..Len(fetchLog) :
        fetchLog[i].outcome \in FailureOutcomes =>
            /\ Contains(CurJob.visited, fetchLog[i].url)
            /\ CurJob.nodes[i].url = fetchLog[i].url
            /\ CurJob.nodes[i].status = "error"
            /\ ~\E k \in 1..Len(pages_collection) :
                   pages_collection[k].url = fetchLog[i].url
            /\ ~\E k \in 1..Len(CurJob.queue) :
                   CurJob.queue[k].parent = fetchLog[i].url

(***************************************************************************)
(* Claims on search, checked under SpecSearch                              *)
(***************************************************************************)
\* a search has returned a list
SearchReturned == result.kind = "search" /\ ~result.raised

\* C7 as stated: for every query and every integer k, the list returned by
\* search has at most k entries.
C7_LengthAtMostK ==
    SearchReturned => Len(result.rows) <= result.k

\* C7: for every query and every k >= 0, the list returned by search (store
\* path and file path) has at most k entries.
C7_LengthAtMostNonNegativeK ==
    (SearchReturned /\ result.k >= 0) => Len(result.rows) <= result.k

\* C7 witness: more documents matched than k asks for, and k rows came back
C7_Witness ==
    /\ SearchReturned
    /\ result.k = 1
    /\ result.matched >= 2
    /\ Len(result.rows) = 1

\* rows are in non-increasing order of score, equal scores in ascending
\* document index
SortedStable(rows) ==
    \A i, j \in 1..Len(rows) :
        i < j => \/ rows[i].score > rows[j].score
                 \/ /\ rows[i].score = rows[j].score
                    /\ rows[i].doc_idx < rows[j].doc_idx

\* C8: search results are in non-increasing order of final score, and
\* documents of equal final score come in ascending document index, on the
\* store path and on the file path.
C8_SortedStable ==
    SearchReturned => SortedStable(result.rows)

\* C8 on the store path alone (MongoSearchEngine.search)
C8_StoreSortedStable ==
    (SearchReturned /\ USE_MONGODB) => SortedStable(result.rows)

\* C8 on the file path, order of score alone (hybrid_rank)
C8_FileSortedByScore ==
    (SearchReturned /\ ~USE_MONGODB) =>
        \A i \in 1..(Len(result.rows) - 1) :
            result.rows[i].score >= result.rows[i + 1].score

\* C9: _build_index never returns an index whose number of documents
\* differs from the store's current count (None for an empty store), and it
\* rebuilds in full whenever the count differs from the count at the last
\* build.
C9_IndexCountMatchesStore ==
    (USE_MONGODB /\ built.called) =>
        /\ \/ built.n_docs = built.count
           \/ built.n_docs = -1 /\ built.count = 0
        /\ (built.count # built.prev_count /\ built.count > 0) => built.rebuilt

\* C9 witness: a cached index of another count was replaced by a full rebuild
C9_Witness ==
    /\ USE_MONGODB
    /\ built.called
    /\ built.had_cache
    /\ built.prev_count # built.count
    /\ built.count > 0
    /\ built.rebuilt
    /\ built.n_docs = built.count

\* the document set the engine reads is empty
EmptyDocumentSet ==
    IF USE_MONGODB THEN collection = << >> ELSE pages_dir = << >>

\* C10: with an empty document set, after the index was built, a search
\* returns an empty list, suggestions are empty and stats report zero
\* documents; none of the calls fails.
C10_EmptySetNoFailure ==
    (EmptyDocumentSet /\ built.called /\ result.kind # "none") =>
        /\ ~result.raised
        /\ result.rows = << >>
        /\ result.suggestions = << >>
        /\ result.kind = "stats" => result.stats[1].total_docs = 0

\* C10 on the store path alone
C10_StoreEmptySetNoFailure ==
    (USE_MONGODB /\ EmptyDocumentSet /\ built.called /\ result.kind # "none")
    => /\ ~result.raised
       /\ result.rows = << >>
       /\ result.suggestions = << >>
       /\ result.kind = "stats" => result.stats[1].total_docs = 0

(***************************************************************************)
(* The query-time endpoints: server.py (search, stats, suggest) and the    *)
(* serverless functions api/search.py, api/stats.py, api/suggest.py.  An   *)
(* engine method raises when the store does not answer (count_documents,   *)
(* line 42 of mongo_search.py, is its first step).                         *)
(***************************************************************************)
ApiDocs == 2             \* the documents the store receives in SpecApi

\* the q parameters of the model: the queries, and a blank one
ApiQueries == Queries \cup { <<" ">> }

Resp(endpoint, status, error, unavailable, total) ==
    [endpoint |-> endpoint, status |-> status, error |-> error,
     unavailable |-> unavailable, total |-> total]

\* server.suggest, lines 158-167: the priority of a term on the file path
FileTermTier(term, query, query_normalized) ==
    IF StartsWith(term, query) THEN 0
    ELSE IF Len(query_normalized) >= 3 /\ StartsWith(term, query_normalized)
    THEN 1
    ELSE IF IsSubstring(query, term) /\ Len(query) >= 3 THEN 2
    ELSE 3

RECURSIVE FileMatchingTerms(_, _, _, _)
FileMatchingTerms(idf, i, query, query_normalized) ==
    IF i > Len(idf) THEN << >>
    ELSE LET tier == FileTermTier(idf[i].term, query, query_normalized)
         IN  (IF tier < 3
              THEN << [term |-> idf[i].term, tier |-> tier, idf |-> idf[i].idf] >>
              ELSE << >>)
             \o FileMatchingTerms(idf, i + 1, query, query_normalized)

\* server.suggest, lines 153-171: the suggestions of the file path
FileSuggestions(idx, query, limit) ==
    LET sorted == SortByTier(FileMatchingTerms(idx.idf, 1, query,
                                               OnlyAlnum(query)), << >>)
        top == PySlice(sorted, limit)
    IN  Tabulate(LAMBDA i : top[i].term, 1, Len(top))

\* the engine of server.py is asked and the store does not answer, or the
\* file path is asked and index.json is missing
ServerUnavailable ==
    IF USE_MONGODB THEN ~store_up ELSE index_files = << >>

\* server.search
ServerSearch(query, k) ==
    /\ IF Strip(query) = << >>
       THEN /\ response' = Resp("server.search", 400, TRUE, FALSE, 0)
            /\ UNCHANGED <<index_cache, last_doc_count>>
       ELSE IF ServerUnavailable
       THEN /\ response' = Resp("server.search", 500, TRUE, TRUE, 0)
            /\ UNCHANGED <<index_cache, last_doc_count>>
       ELSE IF USE_MONGODB
       THEN \E b \in {_build_index(collection, index_cache, last_doc_count)} :
            \E ranked \in {MongoRanked(b.idx, Strip(query), DefaultAlpha,
                                       DefaultBeta, DefaultTitleBoost)} :
                /\ index_cache' = b.cache
                /\ last_doc_count' = b.last
                /\ response' = Resp("server.search", 200, FALSE, FALSE,
                                    Len(MongoSearchOn(b.idx, ranked, k).rows))
       ELSE \E ranked \in {HybridRanked(index_files[1], Strip(query),
                                        DefaultAlpha, DefaultBeta,
                                        DefaultTitleBoost)} :
                /\ response' = Resp("server.search", 200, FALSE, FALSE,
                                    Len(HybridRankOn(index_files[1], ranked, k).rows))
                /\ UNCHANGED <<index_cache, last_doc_count>>
    /\ UNCHANGED <<jobVars, USE_MONGODB, collection, built, pages_dir,
                   index_files, result, store_up, api_engine, api_cache,
                   moreVars>>

\* server.stats
ServerStats ==
    /\ IF ServerUnavailable
       THEN /\ response' = Resp("server.stats", 500, TRUE, TRUE, 0)
            /\ UNCHANGED <<index_cache, last_doc_count>>
       ELSE IF USE_MONGODB
       THEN \E b \in {_build_index(collection, index_cache, last_doc_count)} :
                /\ index_cache' = b.cache
                /\ last_doc_count' = b.last
                /\ response' = Resp("server.stats", 200, FALSE, FALSE,
                                    StatsOf(b.idx).total_docs)
       ELSE /\ response' = Resp("server.stats", 200, FALSE, FALSE,
                                Len(index_files[1].docs))
            /\ UNCHANGED <<index_cache, last_doc_count>>
    /\ UNCHANGED <<jobVars, USE_MONGODB, collection, built, pages_dir,
                   index_files, result, store_up, api_engine, api_cache,
                   moreVars>>

\* server.suggest
ServerSuggest(q, limit) ==
    /\ LET query == Lower(Strip(q))
       IN  IF Len(query) < 2
           THEN /\ response' = Resp("server.suggest", 200, FALSE, FALSE, 0)
                /\ UNCHANGED <<index_cache, last_doc_count>>
           ELSE IF ServerUnavailable
           THEN /\ response' = Resp("server.suggest", 500, TRUE, TRUE, 0)
                /\ UNCHANGED <<index_cache, last_doc_count>>
           ELSE IF USE_MONGODB
           THEN \E b \in {_build_index(collection, index_cache, last_doc_count)} :
                    /\ index_cache' = b.cache
                    /\ last_doc_count' = b.last
                    /\ response' = Resp("server.suggest", 200, FALSE, FALSE,
                                        Len(get_suggestions(b.idx, query, limit)))
           ELSE /\ response' = Resp("server.suggest", 200, FALSE, FALSE,
                                    Len(FileSuggestions(index_files[1], query, limit)))
                /\ UNCHANGED <<index_cache, last_doc_count>>
    /\ UNCHANGED <<jobVars, USE_MONGODB, collection, built, pages_dir,
                   index_files, result, store_up, api_engine, api_cache,
                   moreVars>>

\* the engine of a serverless function after a call: its cache is replaced
CacheAfter(h, b) ==
    [api_cache EXCEPT ![h] = [cache |-> b.cache, last |-> b.last]]

\* api/search.py handler
ApiSearch(query, k) ==
    /\ IF Strip(query) = << >>
       THEN /\ response' = Resp("api.search", 400, TRUE, FALSE, 0)
            /\ UNCHANGED api_cache
       ELSE IF ~api_engine
       THEN /\ response' = Resp("api.search", 503, TRUE, TRUE, 0)
            /\ UNCHANGED api_cache
       ELSE IF ~store_up
       THEN /\ response' = Resp("api.search", 500, TRUE, TRUE, 0)
            /\ UNCHANGED api_cache
       ELSE \E b \in {_build_index(collection, api_cache["search"].cache,
                                   api_cache["search"].last)} :
            \E ranked \in {MongoRanked(b.idx, Strip(query), DefaultAlpha,
                                       DefaultBeta, DefaultTitleBoost)} :
                /\ api_cache' = CacheAfter("search", b)
                /\ response' = Resp("api.search", 200, FALSE, FALSE,
                                    Len(MongoSearchOn(b.idx, ranked, k).rows))
    /\ UNCHANGED <<jobVars, searchVars, store_up, api_engine, moreVars>>

\* api/stats.py handler
ApiStats ==
    /\ IF ~api_engine
       THEN /\ response' = Resp("api.stats", 503, TRUE, TRUE, 0)
            /\ UNCHANGED api_cache
       ELSE IF ~store_up
       THEN /\ response' = Resp("api.stats", 500, TRUE, TRUE, 0)
            /\ UNCHANGED api_cache
       ELSE \E b \in {_build_index(collection, api_cache["stats"].cache,
                                   api_cache["stats"].last)} :
                /\ api_cache' = CacheAfter("stats", b)
                /\ response' = Resp("api.stats", 200, FALSE, FALSE,
                                    StatsOf(b.idx).total_docs)
    /\ UNCHANGED <<jobVars, searchVars, store_up, api_engine, moreVars>>

\* api/suggest.py handler
ApiSuggest(q, limit) ==
    /\ LET query == Lower(Strip(q))
       IN  IF Len(query) < 2
           THEN /\ response' = Resp("api.suggest", 200, FALSE, FALSE, 0)
                /\ UNCHANGED api_cache
           ELSE IF ~api_engine
           THEN /\ response' = Resp("api.suggest", 200, FALSE, TRUE, 0)
                /\ UNCHANGED api_cache
           ELSE IF ~store_up
           THEN /\ response' = Resp("api.suggest", 500, TRUE, TRUE, 0)
                /\ UNCHANGED api_cache
           ELSE \E b \in {_build_index(collection, api_cache["suggest"].cache,
                                       api_cache["suggest"].last)} :
                    /\ api_cache' = CacheAfter("suggest", b)
                    /\ response' = Resp("api.suggest", 200, FALSE, FALSE,
                                        Len(get_suggestions(b.idx, query, limit)))
    /\ UNCHANGED <<jobVars, searchVars, store_up, api_engine, moreVars>>

\* the store goes down or comes back (environment)
StoreToggle ==
    /\ store_up' = ~store_up
    /\ UNCHANGED <<jobVars, searchVars, api_engine, api_cache, response, moreVars>>

\* a page is added to the store, whatever process does it
StoreInsert(doc) ==
    /\ store_up
    /\ Len(collection) < ApiDocs
    /\ UrlMatches(collection, doc.url) = {}
    /\ collection' = Append(collection, doc)
    /\ UNCHANGED <<jobVars, USE_MONGODB, index_cache, last_doc_count, built,
                   pages_dir, index_files, result, laterVars>>

\* the file path gets its index: crawl and build have run on the documents
FileIndexBuilt(n) ==
    /\ ~USE_MONGODB
    /\ index_files = << >>
    /\ pages_dir' = SubSeq(Corpus, 1, n)
    /\ index_files' = << FileIndex(SubSeq(Corpus, 1, n)) >>
    /\ UNCHANGED <<jobVars, USE_MONGODB, collection, index_cache,
                   last_doc_count, built, result, laterVars>>

\* server.py lines 51-64 and api/*.py lines 15-22: with or without an engine
InitApi ==
    /\ JobInit
    /\ SearchInit
    /\ USE_MONGODB \in BOOLEAN
    /\ store_up = TRUE
    /\ api_engine \in BOOLEAN
    /\ api_cache = [h \in ApiHandlers |-> [cache |-> << >>, last |-> 0]]
    /\ response = NoResponse
    /\ MoreInit

NextApi ==
    \/ StoreToggle
    \/ \E i \in 1..ApiDocs : StoreInsert(Corpus[i])
    \/ \E n \in 1..ApiDocs : FileIndexBuilt(n)
    \/ \E q \in ApiQueries, k \in Ks : ServerSearch(q, k)
    \/ ServerStats
    \/ \E q \in Prefixes, l \in Limits : ServerSuggest(q, l)
    \/ \E q \in ApiQueries, k \in Ks : ApiSearch(q, k)
    \/ ApiStats
    \/ \E q \in Prefixes, l \in Limits : ApiSuggest(q, l)

SpecApi == InitApi /\ [][NextApi]_vars

\* C11: whenever an endpoint needed the engine or the store for its answer
\* and it was unavailable or raised, the response has a status other than
\* 200 and an error field, so it differs from a response with no matches.
C11_UnavailableIsError ==
    response.unavailable => (response.status # 200 /\ response.error)

\* C11 on the endpoints of server.py, api/search.py and api/stats.py
C11_AllButApiSuggest ==
    (response.unavailable /\ response.endpoint # "api.suggest")
    => (response.status # 200 /\ response.error)

\* the elements of a list
Range(seq) == {seq[i] : i \in 1..Len(seq)}

\* C12: for every prefix and every limit >= 0, get_suggestions returns a
\* list without duplicates, of length <= limit, in which the title
\* suggestions come first and the vocabulary-term suggestions after them.
C12_SuggestionsWellFormed ==
    (result.kind = "suggest" /\ result.k >= 0) =>
        LET s == result.suggestions
        IN  /\ \A i, j \in 1..Len(s) : i < j => s[i] # s[j]
            /\ Len(s) <= result.k
            /\ \E n \in 0..Len(s) :
                  /\ \A i \in 1..n : s[i] \in Range(result.titles)
                  /\ \A i \in (n + 1)..Len(s) :
                        /\ s[i] \in Range(result.terms)
                        /\ s[i] \notin Range(result.titles)

\* C12 witness: a list with a title suggestion followed by a term that is
\* no title, while another term was left out as already seen
C12_Witness ==
    /\ result.kind = "suggest"
    /\ \E i, j \in 1..Len(result.suggestions) :
          /\ i < j
          /\ result.suggestions[i] \in Range(result.titles)
          /\ result.suggestions[j] \in Range(result.terms) \ Range(result.titles)
    /\ Range(result.terms) \cap Range(result.titles) # {}


(***************************************************************************)
(* The streaming crawl session (backend/crawler_ws.py).  The coroutine is  *)
(* cut at its await points: the page fetch, find_one and insert_one.       *)
(***************************************************************************)
WsPagesBound == 3        \* maxPages is drawn from 0..WsPagesBound and 60

WsMaxPagesCap == 50      \* min(max_pages, 50)
WsAnchorLimit == 20      \* soup.find_all('a', href=True)[:20]
WsQueueCap == 100        \* len(self.queue) < 100

WsPageInputs == (0..WsPagesBound) \cup {WsMaxPagesCap + 10}

\* what one session.get of crawl_page can come to
WsOutcomes == {"ok", "network_error", "http_error", "redirect_out"}

\* WebCrawler.__init__, lines 25-35
NewCrawler(s, max_depth, max_pages, save_to_mongo) ==
    [pc |-> "loop", s |-> s, start_url |-> Sites[s].start,
     max_depth |-> max_depth, max_pages |-> Min(max_pages, WsMaxPagesCap),
     visited |-> {},
     queue |-> << [url |-> Sites[s].start, depth |-> 0, parent |-> NoUrl] >>,
     save_to_mongo |-> save_to_mongo, page_count |-> 0, trims |-> 0,
     cur |-> << >>, page |-> << >>]

\* WebCrawler.is_valid_url
is_valid_url(url, base_domain, visited) ==
    /\ url.scheme \in {"http", "https"}
    /\ Netloc(url) = Netloc(base_domain)
    /\ url \notin visited

\* WebCrawler.crawl_page: (result, links) for one fetch outcome
crawl_page(c, url, outcome) ==
    LET anchors == IF outcome = "redirect_out" THEN OffsiteHrefs(url)
                   ELSE Hrefs(c.s, url)
        links == SelectSeq(Prefix(anchors, WsAnchorLimit),
                           LAMBDA l : is_valid_url(l, c.start_url, c.visited))
    IN  IF outcome \in {"network_error", "http_error"}
        THEN [page_data |-> NoPage, links |-> << >>]
        ELSE [page_data |-> << [title |-> [kind |-> "text", v |-> url.path],
                                text |-> "body"] >>,
              links |-> links]

_send_ws_NoStats(log, open, type, url, status) ==
    IF type = "stats" THEN log
    ELSE Append(log, [type |-> type, url |-> url, status |-> status,
                      delivered |-> open])

\* WebCrawler._send_ws: ws.send raises on a closed connection and the
\* exception is swallowed; the log keeps whether the message went out
_send_ws(log, open, type, url, status) ==
    Append(log, [type |-> type, url |-> url, status |-> status,
                 delivered |-> open])

\* lines 186-189: for link in links: append when unvisited and queue < 100
RECURSIVE WsEnqueue(_, _, _, _, _)
WsEnqueue(queue, links, visited, depth, url) ==
    IF links = << >> THEN queue
    ELSE LET q2 == IF Head(links) \notin visited /\ Len(queue) < WsQueueCap
                   THEN Append(queue, [url |-> Head(links), depth |-> depth + 1,
                                       parent |-> url])
                   ELSE queue
         IN  WsEnqueue(q2, Tail(links), visited, depth, url)

TrimEvery == 10          \* page_count % 10 == 0
TrimAbove == 100         \* len(self.visited) > 100
TrimKeep == 50           \* list(self.visited)[-50:]

TrimTaken_EveryPage(c) == (c.page_count + 1) % 1 = 0

\* lines 192-195: after page_count += 1, is visited to be trimmed
TrimTaken(c) ==
    (c.page_count + 1) % TrimEvery = 0 /\ Cardinality(c.visited) > TrimAbove

\* line 196: set(list(self.visited)[-50:]) keeps 50 URLs, which ones
\* depends on the order of the set
VisitedAfterPage(c) ==
    IF TrimTaken(c)
    THEN {v \in SUBSET c.visited :
             Cardinality(v) = Min(TrimKeep, Cardinality(c.visited))}
    ELSE {c.visited}

\* lines 186-223: the links are queued, visited is trimmed or kept, the
\* stats message is sent
PageDone(c, visited) ==
    [c EXCEPT !.pc = "loop",
              !.queue = WsEnqueue(c.queue, c.page[1].links, c.visited,
                                  c.cur[1].depth, c.cur[1].url),
              !.page_count = c.page_count + 1,
              !.visited = visited,
              !.trims = c.trims + (IF TrimTaken(c) THEN 1 ELSE 0),
              !.cur = << >>, !.page = << >>]

\* what the streaming session leaves alone
WsFrame == UNCHANGED <<site, jobs_collection, inv, ret, ops, fetchLog,
                       searchVars, apiVars, other, norm, crawlVars, aborts>>

\* crawl_websocket, lines 257-275: the start message makes the crawler
WsStart(s, max_depth, max_pages, save_to_mongo) ==
    /\ crawler.pc = "idle"
    /\ crawler' = NewCrawler(s, max_depth, max_pages, save_to_mongo)
    /\ UNCHANGED <<ws_open, ws_log, ws_fetches, pages_collection>>
    /\ WsFrame

\* line 122: while self.queue and len(self.visited) < self.max_pages
WhileCondition(c) ==
    c.queue # << >> /\ Cardinality(c.visited) < c.max_pages

SkipEntry_VisitedOnly(c, e) == e.url \in c.visited

\* line 125: if url in self.visited or depth > self.max_depth
SkipEntry(c, e) == e.url \in c.visited \/ e.depth > c.max_depth

\* lines 123-126: an entry that is visited already or too deep is dropped
WsSkip ==
    /\ crawler.pc = "loop"
    /\ WhileCondition(crawler)
    /\ LET e == Head(crawler.queue)
       IN  /\ SkipEntry(crawler, e)
           /\ crawler' = [crawler EXCEPT !.queue = Tail(crawler.queue)]
    /\ UNCHANGED <<ws_open, ws_log, ws_fetches, pages_collection>>
    /\ WsFrame

\* lines 123-144: the entry is marked visited, the crawling node is sent
\* and the fetch is started
WsVisit ==
    /\ crawler.pc = "loop"
    /\ WhileCondition(crawler)
    /\ LET e == Head(crawler.queue)
       IN  /\ ~SkipEntry(crawler, e)
           /\ crawler' = [crawler EXCEPT !.pc = "fetch",
                                         !.queue = Tail(crawler.queue),
                                         !.visited = @ \cup {e.url},
                                         !.cur = << e >>]
           /\ ws_log' = _send_ws(ws_log, ws_open, "node", e.url, "crawling")
           /\ ws_fetches' = Append(ws_fetches, [url |-> e.url, depth |-> e.depth,
                                                open |-> ws_open])
    /\ UNCHANGED <<ws_open, pages_collection>>
    /\ WsFrame

\* lines 144-223: the fetch returns; completed or error node, then (unless
\* the page is to be saved first) the links and the stats message
WsFetched(outcome) ==
    /\ crawler.pc = "fetch"
    /\ LET e == crawler.cur[1]
           r == crawl_page(crawler, e.url, outcome)
           c == [crawler EXCEPT !.page = << r >>]
       IN  IF r.page_data # NoPage
           THEN LET log == _send_ws(ws_log, ws_open, "node", e.url, "completed")
                IN  IF c.save_to_mongo
                    THEN /\ crawler' = [c EXCEPT !.pc = "find"]
                         /\ ws_log' = log
                    ELSE /\ \E v \in VisitedAfterPage(c) : crawler' = PageDone(c, v)
                         /\ ws_log' = _send_ws(log, ws_open, "stats", NoUrl,
                                               "crawling")
           ELSE /\ crawler' = [c EXCEPT !.pc = "loop", !.cur = << >>,
                                        !.page = << >>]
                /\ ws_log' = _send_ws(_send_ws(ws_log, ws_open, "node", e.url,
                                               "error"),
                                      ws_open, "stats", NoUrl, "crawling")
    /\ UNCHANGED <<ws_open, ws_fetches, pages_collection>>
    /\ WsFrame

\* lines 164-167, 186-223: find_one answers; an existing page is skipped
WsFind ==
    /\ crawler.pc = "find"
    /\ IF \E i \in 1..Len(pages_collection) :
             pages_collection[i].url = crawler.cur[1].url
       THEN /\ \E v \in VisitedAfterPage(crawler) : crawler' = PageDone(crawler, v)
            /\ ws_log' = _send_ws(ws_log, ws_open, "stats", NoUrl, "crawling")
       ELSE /\ crawler' = [crawler EXCEPT !.pc = "insert"]
            /\ UNCHANGED ws_log
    /\ UNCHANGED <<ws_open, ws_fetches, pages_collection>>
    /\ WsFrame

\* lines 170-223: insert_one, then the links and the stats message
WsInsert ==
    /\ crawler.pc = "insert"
    /\ LET e == crawler.cur[1]
       IN  pages_collection' =
               Append(pages_collection,
                      [url |-> e.url, title |-> crawler.page[1].page_data[1].title,
                       text |-> crawler.page[1].page_data[1].text,
                       depth |-> e.depth, parent_url |-> e.parent,
                       start_url |-> crawler.start_url])
    /\ \E v \in VisitedAfterPage(crawler) : crawler' = PageDone(crawler, v)
    /\ ws_log' = _send_ws(ws_log, ws_open, "stats", NoUrl, "crawling")
    /\ UNCHANGED <<ws_open, ws_fetches>>
    /\ WsFrame

\* lines 122, 225-236: the loop ends and the complete message is sent
WsComplete ==
    /\ crawler.pc = "loop"
    /\ ~WhileCondition(crawler)
    /\ crawler' = [crawler EXCEPT !.pc = "done"]
    /\ ws_log' = _send_ws(ws_log, ws_open, "complete", NoUrl, "completed")
    /\ UNCHANGED <<ws_open, ws_fetches, pages_collection>>
    /\ WsFrame

\* the client closes the connection while the crawl runs (environment)
WsClose ==
    /\ ws_open
    /\ crawler.pc \notin {"idle", "done"}
    /\ ws_open' = FALSE
    /\ UNCHANGED <<crawler, ws_log, ws_fetches, pages_collection>>
    /\ WsFrame

NextWs ==
    \/ \E s \in SmallSites, d \in 0..MaxDepthBound,
          m \in WsPageInputs, sv \in BOOLEAN : WsStart(s, d, m, sv)
    \/ WsSkip
    \/ WsVisit
    \/ \E o \in WsOutcomes : WsFetched(o)
    \/ WsFind
    \/ WsInsert
    \/ WsComplete
    \/ WsClose

SpecWs == Init /\ [][NextWs]_vars

\* the node messages of the log with one of the given statuses
NodeAt(i, statuses) ==
    ws_log[i].type = "node" /\ ws_log[i].status \in statuses

C14_NoFetchAfterClose ==
    \A i \in 1..Len(ws_fetches) : ws_fetches[i].open

\* the crawl loop ends all the same: with an empty queue or at max_pages
C14_LoopEndsOnlyByQueueOrMaxPages ==
    crawler.pc = "done" => ~WhileCondition(crawler)

\* C14 read generously: one fetch may slip in after the close
C14_AtMostOneFetchAfterClose ==
    Cardinality({i \in 1..Len(ws_fetches) : ~ws_fetches[i].open}) <= 1


(***************************************************************************)
(* A crawl job and a streaming session that saves its pages, at work on    *)
(* the same site and the same crawled_pages collection.                    *)
(***************************************************************************)
SharedSite == 2           \* the site of Sites both crawl

NextSave ==
    \/ \E d \in 0..1, m \in 1..3 : CreateJob(SharedSite, d, m)
    \/ \E b \in 1..MaxBatch : BatchStart(b)
    \/ LoopSkipVisited
    \/ \E o \in {"ok", "http_error"} : LoopCrawl(o)
    \/ \E t \in BOOLEAN : BatchFinish(t)
    \/ BatchOnCompleted
    \/ \E d \in 0..1, m \in 1..2 : WsStart(SharedSite, d, m, TRUE)
    \/ WsSkip
    \/ WsVisit
    \/ \E o \in {"ok", "http_error"} : WsFetched(o)
    \/ WsFind
    \/ WsInsert
    \/ WsComplete

SpecSave == Init /\ [][NextSave]_vars

\* C15: whatever the interleaving of the page saves of crawl jobs and
\* streaming sessions, crawled_pages never holds two documents with the
\* same url.
C15_UrlUnique ==
    \A i, j \in 1..Len(pages_collection) :
        i # j => pages_collection[i].url # pages_collection[j].url

\* a save that finds the page stored already leaves the collection alone
C15_FoundPageIsNotInsertedAgain ==
    [][(crawler.pc = "find" /\ crawler'.pc = "loop")
        => pages_collection' = pages_collection]_vars


(***************************************************************************)
(* Two process_job_batch calls on the same job that overlap in time.       *)
(* `inv` holds the locals of the call that is running and `other` those   *)
(* of the call that waits at one of its awaits.                            *)
(***************************************************************************)
\* the event loops switch from one call to the other
Switch ==
    /\ inv # other
    /\ inv' = other
    /\ other' = inv
    /\ ops' = {}
    /\ UNCHANGED <<site, jobs_collection, pages_collection, ret, fetchLog,
                   searchVars, apiVars, wsVars, norm, crawlVars, aborts>>

OverlapFetches == 4      \* the two calls make at most OverlapFetches fetches

NextOverlap ==
    \/ \E d \in 0..1, m \in 1..3 : CreateJob(SharedSite, d, m)
    \/ BatchNotFound
    \/ BatchOnCompleted
    \/ \E b \in 1..MaxBatch : BatchStart(b)
    \/ LoopSkipVisited
    \/ \E o \in {"ok", "http_error"} :
          Len(fetchLog) < OverlapFetches /\ LoopCrawl(o)
    \/ \E t \in BOOLEAN : BatchFinish(t)
    \/ Switch

SpecOverlap == Init /\ [][NextOverlap]_vars

\* C16: once the persisted status of a job is completed, no later write
\* sets it back to running or pending, also when two process_job_batch
\* calls on the job overlap.
C16_CompletedIsTerminal ==
    [][(jobs_collection # << >> /\ Stored.status = "completed")
        => jobs_collection'[1].status = "completed"]_vars


(***************************************************************************)
(* norm_url (backend/mini_search.py) applied to a URL and to its result.   *)
(***************************************************************************)
NormInputs ==
    [scheme : {"http", "https", "HTTP"},
     host   : {"a.com", "A.COM"},
     port   : {"", "80", "443", "8080"},
     path   : {"", "/", "/p2", "/x/../p2"},
     query  : { << >>, <<"x=1", "y=2">>, <<"y=2", "x=1">>, <<"", "y=2", "">> },
     frag   : {"", "top"}]

\* the port a URL of this scheme has when none is written
DefaultPort(sch) == IF LowerScheme(sch) = "https" THEN "443" ELSE "80"

\* u = norm_url(u)
NormOnce ==
    /\ norm.step = 0
    /\ norm' = [norm EXCEPT !.step = 1, !.once = norm_url(norm.u)]
    /\ UNCHANGED <<jobVars, searchVars, apiVars, wsVars, other, crawlVars, aborts>>

\* norm_url(u) of a string that norm_url returned
NormTwice ==
    /\ norm.step = 1
    /\ norm' = [norm EXCEPT !.step = 2, !.twice = norm_url(norm.once)]
    /\ UNCHANGED <<jobVars, searchVars, apiVars, wsVars, other, crawlVars, aborts>>

InitNorm ==
    /\ JobInit
    /\ SearchInit
    /\ USE_MONGODB = TRUE
    /\ ApiInit
    /\ WsInit
    /\ other = IdleInv
    /\ CrawlInit
    /\ aborts = 0
    /\ norm \in {[NoNorm EXCEPT !.u = u] : u \in NormInputs}

NextNorm == NormOnce \/ NormTwice

SpecNorm == InitNorm /\ [][NextNorm]_vars

\* C17: norm_url(norm_url(u)) = norm_url(u) for every URL u, and a URL
\* with the default port of its scheme (http :80, https :443) normalizes
\* to the same string as the URL without the port.
C17_NormIdempotent ==
    /\ norm.step = 2 => norm.twice = norm.once
    /\ (norm.step >= 1 /\ norm.u.port = DefaultPort(norm.u.scheme)) =>
          norm.once = norm_url([norm.u EXCEPT !.port = ""])

\* C17 witness: an https URL with :443, capitals, a dot segment, unsorted
\* parameters and a fragment, normalized twice
C17_Witness ==
    /\ norm.step = 2
    /\ norm.u = [scheme |-> "https", host |-> "A.COM", port |-> "443",
                 path |-> "/x/../p2", query |-> <<"y=2", "x=1">>,
                 frag |-> "top"]
    /\ norm.once = [scheme |-> "https", host |-> "a.com", port |-> "",
                    path |-> "/p2", query |-> <<"x=1", "y=2">>, frag |-> ""]


(***************************************************************************)
(* The file-backed crawl (mini_search.crawl): robots, scope, politeness.   *)
(* Time is counted in quarters of a second.                                *)
(***************************************************************************)
CrawlPagesBound == 3     \* max_pages is drawn from 0..CrawlPagesBound
FetchTicksBound == 1     \* a fetch takes 0..FetchTicksBound quarters

PoliteDelay == 3         \* delay=0.75

\* the web the crawl runs on: the anchors of each page, by host and path
CrawlWeb(host, path) ==
    CASE host = "a.com" /\ path = "/" ->
            << A("/p2"), U("blog.a.com", "", "/", <<>>, "") >>
      [] host = "a.com" /\ path = "/p2" ->
            << U("A.COM", "80", "/p3", <<>>, "top"), A("/p3") >>
      [] host = "a.com" /\ path = "/p3" ->
            << A("/p2"), U("b.com", "", "/x", <<>>, "") >>
      [] host = "blog.a.com" /\ path = "/" ->
            << A("/p3"), U("blog.a.com", "", "/p3", <<>>, "") >>
      [] OTHER -> << >>

\* the Disallow lines for * in the robots.txt of the start host
RobotsRules == {"/p3"}

\* what the fetch of robots.txt can come to
RobotsOutcomes == {"rules", "raise", "redirect_out"}

\* what the fetch of one page can come to
CrawlOutcomes == {"ok", "raise", "redirect_out", "redirect_sub", "non_html"}

\* resp.geturl(): the URL the response came from
FinalUrl(url, outcome) ==
    CASE outcome = "redirect_out" -> U("b.com", "", "/x", <<>>, "")
      [] outcome = "redirect_sub" -> U("blog.a.com", "", "/", <<>>, "")
      [] OTHER -> url

\* host_only: the netloc without its port, in lower case
host_only(u) == LowerHost(u.host)

\* same_domain and same_reg_domain (the last two labels of the host)
allowed_host(scope, a, b) ==
    LET root(h) == IF h = "blog.a.com" THEN "a.com" ELSE h
    IN  IF scope = "host" THEN host_only(a) = host_only(b)
        ELSE root(host_only(a)) = root(host_only(b))

\* crawl.allowed, lines 221-227: rp.can_fetch("*", u) goes by the path
allowed(c, u) == c.robots_ok => u.path \notin RobotsRules

\* sleep_polite: the time at which it returns
sleep_polite(last_fetch_time, host, t_now) ==
    IF host \in DOMAIN last_fetch_time
       /\ last_fetch_time[host] + PoliteDelay - t_now > 0
    THEN last_fetch_time[host] + PoliteDelay
    ELSE t_now

\* lines 189-237: the start URL is normalized, robots.txt of the start
\* host is fetched and parsed, the queue gets the start URL
CrawlStart(start_url, max_pages, scope, robots, d) ==
    /\ mc.pc = "idle"
    /\ mc' = [pc |-> "loop", start_url |-> norm_url(start_url),
              max_pages |-> max_pages, scope |-> scope,
              robots_ok |-> (robots = "rules"),
              q |-> << norm_url(start_url) >>, seen |-> {},
              last_fetch_time |-> << >>, fetched |-> 0, pages |-> << >>,
              skipped_by_robots |-> {}]
    /\ mc_log' = Append(mc_log, [kind |-> "robots",
                                 url |-> [norm_url(start_url) EXCEPT
                                            !.port = "", !.path = "/robots.txt"],
                                 host |-> host_only(start_url), start |-> now,
                                 raised |-> (robots = "raise"),
                                 outcome |-> robots])
    /\ now' = now + d
    /\ UNCHANGED <<jobVars, searchVars, apiVars, wsVars, other, norm, aborts>>

\* lines 239-251: a URL that was seen, is out of scope or is disallowed
CrawlSkip ==
    /\ mc.pc = "loop"
    /\ mc.q # << >> /\ mc.fetched < mc.max_pages
    /\ LET url == Head(mc.q)
       IN  /\ \/ url \in mc.seen
              \/ ~allowed_host(mc.scope, url, mc.start_url)
              \/ ~allowed(mc, url)
           /\ mc' = [mc EXCEPT
                 !.q = Tail(mc.q), !.seen = @ \cup {url},
                 !.skipped_by_robots =
                     IF url \notin mc.seen
                        /\ allowed_host(mc.scope, url, mc.start_url)
                     THEN @ \cup {url} ELSE @]
    /\ UNCHANGED <<mc_log, now>>
    /\ UNCHANGED <<jobVars, searchVars, apiVars, wsVars, other, norm, aborts>>

\* lines 239-299: one URL is waited for, fetched and, if it is an in-scope
\* HTML page with text, written and its outlinks queued in shuffled order
CrawlFetch(outcome, d, reversed) ==
    /\ mc.pc = "loop"
    /\ mc.q # << >> /\ mc.fetched < mc.max_pages
    /\ LET url   == Head(mc.q)
           host  == host_only(url)
           start == sleep_polite(mc.last_fetch_time, host, now)
           seen  == mc.seen \cup {url}
           final_url == FinalUrl(url, outcome)
           links == CrawlWeb(host_only(final_url), final_url.path)
           outs  == [i \in 1..Len(links) |->
                        norm_url(links[IF reversed THEN Len(links) + 1 - i ELSE i])]
           enq   == SelectSeq(outs, LAMBDA h :
                        /\ allowed_host(mc.scope, h, mc.start_url)
                        /\ h \notin seen
                        /\ allowed(mc, h))
           c1    == [mc EXCEPT !.q = Tail(mc.q), !.seen = seen]
           c2    == IF outcome = "raise" THEN c1
                    ELSE [c1 EXCEPT !.last_fetch_time =
                            [h \in DOMAIN @ \cup {host} |->
                                IF h = host THEN start + d ELSE @[h]]]
       IN  /\ url \notin mc.seen
           /\ allowed_host(mc.scope, url, mc.start_url)
           /\ allowed(mc, url)
           /\ mc' = IF /\ outcome \notin {"raise", "non_html"}
                       /\ allowed_host(mc.scope, final_url, mc.start_url)
                    THEN [c2 EXCEPT !.q = @ \o enq, !.fetched = @ + 1,
                                    !.pages = Append(@, [url |-> norm_url(final_url),
                                                         file |-> mc.fetched,
                                                         outlinks |-> outs])]
                    ELSE c2
           /\ mc_log' = Append(mc_log, [kind |-> "page", url |-> url,
                                        host |-> host, start |-> start,
                                        raised |-> (outcome = "raise"),
                                        outcome |-> outcome])
           /\ now' = start + d
    /\ UNCHANGED <<jobVars, searchVars, apiVars, wsVars, other, norm, aborts>>

\* lines 238, 301-303: the loop ends, crawl_meta.json is written
CrawlDone ==
    /\ mc.pc = "loop"
    /\ ~(mc.q # << >> /\ mc.fetched < mc.max_pages)
    /\ mc' = [mc EXCEPT !.pc = "done"]
    /\ UNCHANGED <<mc_log, now>>
    /\ UNCHANGED <<jobVars, searchVars, apiVars, wsVars, other, norm, aborts>>

NextCrawl ==
    \/ \E u \in {A("/"), U("A.COM", "80", "", <<>>, "top"), A("/p3")},
          m \in 0..CrawlPagesBound, sc \in {"host", "domain"},
          r \in RobotsOutcomes, d \in 0..FetchTicksBound :
              CrawlStart(u, m, sc, r, d)
    \/ CrawlSkip
    \/ \E o \in CrawlOutcomes, d \in 0..FetchTicksBound, rv \in BOOLEAN :
          CrawlFetch(o, d, rv)
    \/ CrawlDone

SpecCrawl == Init /\ [][NextCrawl]_vars

\* C18: no page whose final URL after redirects is outside the scope of
\* the job is stored as a document, in crawl and in process_job_batch:
\* here for process_job_batch and the pages that _save_page stores.
C18_JobFinalUrlInScope ==
    \A i \in 1..Len(fetchLog) :
        fetchLog[i].outcome = "redirect_out" =>
            \A j \in 1..Len(pages_collection) :
                pages_collection[j].url # fetchLog[i].url

\* C18 for crawl (mini_search): every page file has a URL in scope, and the
\* queue holds the start URL and outlinks of written pages only
C18_CrawlFinalUrlInScope ==
    mc.pc # "idle" =>
        /\ \A i \in 1..Len(mc.pages) :
              allowed_host(mc.scope, mc.pages[i].url, mc.start_url)
        /\ \A k \in 1..Len(mc.q) :
              \/ mc.q[k] = mc.start_url
              \/ \E i \in 1..Len(mc.pages) : mc.q[k] \in Range(mc.pages[i].outlinks)

\* C19: robots.txt is fetched once for each host the crawl fetches pages
\* from, no page is fetched unless the rules loaded for its host allow it,
\* and with a failed robots.txt fetch every URL counts as allowed.
C19_RobotsPerHost ==
    /\ \A i \in 1..Len(mc_log) : mc_log[i].kind = "page" =>
          /\ Cardinality({j \in 1..Len(mc_log) :
                            /\ mc_log[j].kind = "robots"
                            /\ mc_log[j].host = mc_log[i].host}) = 1
          /\ mc.robots_ok => mc_log[i].url.path \notin RobotsRules
    /\ (mc.pc # "idle" /\ ~mc.robots_ok) => mc.skipped_by_robots = {}

\* C19 for the pages of the start host only
C19_StartHostRules ==
    /\ \A i \in 1..Len(mc_log) :
          (mc_log[i].kind = "page" /\ mc_log[i].host = host_only(mc.start_url)) =>
              /\ Cardinality({j \in 1..Len(mc_log) :
                                /\ mc_log[j].kind = "robots"
                                /\ mc_log[j].host = mc_log[i].host}) = 1
              /\ mc.robots_ok => mc_log[i].url.path \notin RobotsRules
    /\ (mc.pc # "idle" /\ ~mc.robots_ok) => mc.skipped_by_robots = {}

\* two page fetches to one host with no page fetch to it in between
ConsecutiveToHost(i, j) ==
    /\ i < j
    /\ mc_log[i].kind = "page" /\ mc_log[j].kind = "page"
    /\ mc_log[i].host = mc_log[j].host
    /\ \A k \in (i + 1)..(j - 1) : mc_log[k].host # mc_log[i].host

\* C20: two consecutive fetch attempts to the same host are at least the
\* politeness delay (0.75 s) apart, whether the earlier one succeeded or
\* raised.
C20_PoliteDelayKept ==
    \A i, j \in 1..Len(mc_log) :
        ConsecutiveToHost(i, j) =>
            mc_log[j].start - mc_log[i].start >= PoliteDelay

\* C20 after a fetch that returned
C20_DelayAfterReturnedFetch ==
    \A i, j \in 1..Len(mc_log) :
        (ConsecutiveToHost(i, j) /\ ~mc_log[i].raised) =>
            mc_log[j].start - mc_log[i].start >= PoliteDelay


(***************************************************************************)
(* The frontier on a hub site: either a crawl job or a streaming session   *)
(* crawls the site whose pages carry 25 anchors each.                      *)
(***************************************************************************)
HubJobPages == 12        \* max_pages of the job on the hub
HubWsPages == 10         \* maxPages of the session on the hub

NextHub ==
    \/ \E d \in 2..3 : crawler.pc = "idle" /\ CreateJob(HubSite, d, HubJobPages)
    \/ \E b \in 1..MaxBatch : BatchStart(b)
    \/ LoopSkipVisited
    \/ \E o \in {"ok", "http_error"} : LoopCrawl(o)
    \/ \E t \in BOOLEAN : BatchFinish(t)
    \/ BatchOnCompleted
    \/ \E d \in 0..1, sv \in BOOLEAN :
          jobs_collection = << >> /\ WsStart(HubSite, d, HubWsPages, sv)
    \/ WsSkip
    \/ WsVisit
    \/ \E o \in {"ok", "http_error"} : WsFetched(o)
    \/ WsFind
    \/ WsInsert
    \/ WsComplete

SpecHub == Init /\ [][NextHub]_vars

\* the frontier of the running call, of the stored job and of the session
QueueWithinCap ==
    /\ inv.pc # "idle" => Len(inv.job[1].queue) <= QueueCap
    /\ jobs_collection # << >> => Len(Stored.queue) <= QueueCap
    /\ crawler.pc # "idle" => Len(crawler.queue) <= WsQueueCap

\* what one step adds to the frontier: a processed page of the job pops
\* one entry and adds its links, the session adds the links of one page
FanOutWithinCap ==
    /\ (inv.pc = "loop" /\ inv'.pc = "loop") =>
          Len(inv'.job[1].queue) - (Len(inv.job[1].queue) - 1) <= LinksPerPage
    /\ (crawler.pc # "idle" /\ crawler'.pc # "idle") =>
          Len(crawler'.queue) - Len(crawler.queue) <= WsAnchorLimit

\* C21: in every state of a batch job and of a streaming session the
\* frontier queue holds at most 100 entries, and one processed page adds at
\* most 10 entries in process_job_batch and 20 in WebCrawler.crawl.
C21_FrontierBounded == []QueueWithinCap /\ [][FanOutWithinCap]_vars

\* C21 witness: the job's frontier is full after a page with 20 valid links
\* of which the cap of 100 let in only a part
C21_Witness ==
    /\ inv.pc = "loop"
    /\ Len(inv.job[1].queue) = QueueCap
    /\ Len(inv.job[1].visited) = HubJobPages
    /\ \E i \in 1..Len(inv.job[1].nodes) : inv.job[1].nodes[i].linkCount = 20

\* the session's frontier is full as well
C21_SessionFrontierFull ==
    crawler.pc # "idle" /\ Len(crawler.queue) = WsQueueCap


(***************************************************************************)
(* The time budget of a batch: the clock (in quarters of a second) runs    *)
(* while a call of process_job_batch is at work.                           *)
(***************************************************************************)
BatchTimeout == 32       \* timeout=8 seconds
SafetyMargin == 8        \* "leave 2s buffer for cleanup"
ClockBound == 60         \* the clock is followed up to this time
FetchTimes == {4, 12}    \* what one step of a call may take

\* line 73: time.time() - start_time > timeout
TimedOut == now - inv.start_time > BatchTimeout

\* time passes while the call runs (its awaits: find, update, get, insert)
Elapse(dt) ==
    /\ inv.pc = "loop"
    /\ now + dt <= ClockBound
    /\ now' = now + dt
    /\ UNCHANGED <<jobVars, searchVars, apiVars, wsVars, other, norm, mc,
                   mc_log, aborts>>

NextBudget ==
    \/ \E d \in 0..1, m \in 1..3 : CreateJob(SharedSite, d, m)
    \/ \E b \in 1..MaxBatch : BatchStart(b)
    \/ \E dt \in FetchTimes : Elapse(dt)
    \/ ~TimedOut /\ LoopSkipVisited
    \/ \E o \in {"ok", "http_error"} : ~TimedOut /\ LoopCrawl(o)
    \/ BatchFinish(TimedOut)
    \/ BatchOnCompleted

SpecBudget == Init /\ [][NextBudget]_vars

\* the step pops an entry of the frontier
PopsEntry ==
    /\ inv.pc = "loop"
    /\ inv'.pc = "loop"
    /\ inv'.job[1].queue # inv.job[1].queue

\* the call has marked at most batch_size URLs visited
AtMostBatchSizeVisited ==
    inv.pc = "loop" =>
        /\ Len(inv.job[1].visited) - Len(Stored.visited) = inv.processed
        /\ inv.processed <= inv.batch_size

\* no entry is popped once batch_size URLs are processed or max_pages is
\* reached
NoPopAfterCount ==
    (inv.pc = "loop" /\ (inv.processed >= inv.batch_size
                          \/ Len(inv.job[1].visited) >= inv.job[1].max_pages))
        => ~PopsEntry

\* C22: one call of process_job_batch marks at most batch_size new URLs
\* visited, and pops no further entry once batch_size URLs are processed,
\* max_pages is reached, or the elapsed time has exceeded the time budget
\* minus the safety margin.
C22_StopsWithinBudgetMinusMargin ==
    /\ []AtMostBatchSizeVisited
    /\ [][NoPopAfterCount]_vars
    /\ [][(inv.pc = "loop"
           /\ now - inv.start_time > BatchTimeout - SafetyMargin)
             => ~PopsEntry]_vars

\* what the code keeps: the counts, and no pop once the elapsed time has
\* exceeded the whole time budget
C22_StopsWithinBudget ==
    /\ []AtMostBatchSizeVisited
    /\ [][NoPopAfterCount]_vars
    /\ [][(inv.pc = "loop" /\ now - inv.start_time > BatchTimeout)
             => ~PopsEntry]_vars

\* a call that ran out of time with entries left and batch_size not reached
C22_TimedOutCall ==
    /\ inv.pc = "loop"
    /\ TimedOut
    /\ LoopCondition
    /\ ~MaxPagesReached(inv.job[1])
    /\ inv.processed >= 1


(***************************************************************************)
(* The link graph of PageRank                                              *)
(***************************************************************************)
\* every edge of the adjacency list g leads to a document id
TargetsKnown(g) ==
    \A i \in 1..Len(g) : \A k \in 1..Len(g[i]) : g[i][k] \in 1..Len(g)

\* no edge i -> i
NoSelfLoop(g) ==
    \A i \in 1..Len(g) : \A k \in 1..Len(g[i]) : g[i][k] # i

\* C23: the adjacency list PageRank is computed from holds only edges to
\* known document ids and no self-loop, for the index built from the store
\* (_calculate_pagerank) and for the index built from the page files (build).
C23_AdjacencyClean ==
    /\ index_cache # << >> =>
          /\ TargetsKnown(MongoOutlinks(collection))
          /\ NoSelfLoop(MongoOutlinks(collection))
    /\ index_files # << >> =>
          /\ TargetsKnown(FileGraph(pages_dir))
          /\ NoSelfLoop(FileGraph(pages_dir))

\* what holds: the store-backed graph is clean, the file-backed graph has
\* known targets only
C23_CleanButFileSelfLoops ==
    /\ index_cache # << >> =>
          /\ TargetsKnown(MongoOutlinks(collection))
          /\ NoSelfLoop(MongoOutlinks(collection))
    /\ index_files # << >> => TargetsKnown(FileGraph(pages_dir))

\* the store holds a document that links to itself and to an unknown url,
\* and the index is built
C23_StoreSelfLinkDropped ==
    /\ index_cache # << >>
    /\ \E i \in 1..Len(collection) :
          /\ Contains(collection[i].links, collection[i].url)
          /\ \E k \in 1..Len(collection[i].links) :
                UrlToIdx(collection, collection[i].links[k]) = 0
          /\ MongoOutlinks(collection)[i] # << >>


(***************************************************************************)
(* The rank mass of PageRank                                               *)
(***************************************************************************)
PrTolerance == 1000      \* how far from 1.0 a sum may be, in 1/1000000

\* the ranks sum to about 1
SumsToOne(pr) == Abs(SumSeq(pr) - PrUnit) <= PrTolerance

\* the ranks after each round of _calculate_pagerank sum to 1
RECURSIVE MongoRoundsSumToOne(_, _, _)
MongoRoundsSumToOne(pr, outlinks, rounds) ==
    /\ SumsToOne(pr)
    /\ rounds > 0 =>
          MongoRoundsSumToOne(MongoPrRound(pr, outlinks), outlinks, rounds - 1)

\* the ranks after each round of pagerank sum to 1
RECURSIVE FileRoundsSumToOne(_, _, _)
FileRoundsSumToOne(pr, outlinks, rounds) ==
    /\ SumsToOne(pr)
    /\ rounds > 0 =>
          LET new == FilePrRound(pr, outlinks)
              delta == SumSeq(Tabulate(LAMBDA i : Abs(new[i] - pr[i]), 1, Len(pr)))
          IN  IF delta < 1 THEN SumsToOne(new)
              ELSE FileRoundsSumToOne(new, outlinks, rounds - 1)

\* the file-backed index: every round and the ranks written sum to 1
FileRanksSumToOne ==
    index_files # << >> /\ built.rebuilt =>
        /\ FileRoundsSumToOne(Tabulate(LAMBDA i : PrUnit \div Len(pages_dir),
                                       1, Len(pages_dir)),
                              FileGraph(pages_dir), PrMaxIter)
        /\ SumsToOne(index_files[1].pr)

\* the store-backed index: every round and the ranks kept sum to 1
MongoRanksSumToOne ==
    index_cache # << >> /\ built.rebuilt =>
        /\ MongoRoundsSumToOne(Tabulate(LAMBDA i : PrUnit \div Len(collection),
                                        1, Len(collection)),
                               MongoOutlinks(collection), PrIterations)
        /\ SumsToOne(index_cache[1].pagerank)

\* no documents: an empty result
EmptyGraphEmptyRanks ==
    /\ pagerank(<< >>, 0) = << >>
    /\ _calculate_pagerank(<< >>) = << >>

\* C24: for every link graph of N >= 1 documents, sinks included, the ranks
\* sum to 1 after every round and at output, in pagerank and in
\* _calculate_pagerank; N = 0 gives an empty result.
C24_RanksSumToOne ==
    /\ FileRanksSumToOne
    /\ MongoRanksSumToOne
    /\ EmptyGraphEmptyRanks

\* what holds: the file-backed ranks sum to 1, an empty graph gives no ranks
C24_FileRanksSumToOne ==
    /\ FileRanksSumToOne
    /\ EmptyGraphEmptyRanks

\* the rank mass of the store-backed index never exceeds 1
C24_MongoRanksAtMostOne ==
    index_cache # << >> => SumSeq(index_cache[1].pagerank) <= PrUnit + PrTolerance

\* a file-backed index over a graph with a sink and a document with links
C24_FileIndexWithSink ==
    /\ index_files # << >>
    /\ built.rebuilt
    /\ \E i \in 1..Len(pages_dir) : FileGraph(pages_dir)[i] = << >>
    /\ \E i \in 1..Len(pages_dir) : FileGraph(pages_dir)[i] # << >>


(***************************************************************************)
(* Suggestions over a vocabulary of similar terms                          *)
(***************************************************************************)
For == <<"f", "o", "r">>
Forloop == <<"f", "o", "r", "l", "o", "o", "p">>
Format == <<"f", "o", "r", "m", "a", "t">>
Loop == <<"l", "o", "o", "p">>

\* the documents stored: their words are forloop, for, format and loop
SuggestCorpus == <<
    [url |-> <<"u", "1">>, title |-> << >>,
     text |-> Forloop \o <<" ">> \o For \o <<" ">> \o Format,
     snippet |-> << >>, links |-> << >>],
    [url |-> <<"u", "2">>, title |-> << >>,
     text |-> For \o <<" ">> \o Format,
     snippet |-> << >>, links |-> << >>],
    [url |-> <<"u", "a">>, title |-> << >>, text |-> For,
     snippet |-> << >>, links |-> << >>],
    [url |-> <<"u", "b">>, title |-> << >>,
     text |-> Loop \o <<" ">> \o Forloop \o <<" ">> \o Forloop,
     snippet |-> << >>, links |-> << >>]
>>

\* the prefixes typed: for, for-l, orm, loo, lop, fmt, f-o, F
TierPrefixes == {
    For,
    <<"f", "o", "r", "-", "l">>,
    <<"o", "r", "m">>,
    <<"l", "o", "o">>,
    <<"l", "o", "p">>,
    <<"f", "m", "t">>,
    <<"f", "-", "o">>,
    <<"F">> }

SuggestLimits == {1, 8}

InitSuggest ==
    /\ JobInit
    /\ SearchInit
    /\ USE_MONGODB = TRUE
    /\ LaterInit

NextSuggest ==
    \/ \E i \in 1..Len(SuggestCorpus) : InsertDoc(SuggestCorpus[i])
    \/ \E b \in {_build_index(collection, index_cache, last_doc_count)} :
       \E prefix \in TierPrefixes, limit \in SuggestLimits :
          GetSuggestions(b, prefix, limit)

SpecSuggest == InitSuggest /\ [][NextSuggest]_vars

\* p is an in-order subsequence of t
IsSubsequence(p, t) ==
    \E pos \in [1..Len(p) -> 1..Len(t)] :
        /\ \A i \in 1..Len(p) : t[pos[i]] = p[i]
        /\ \A i, j \in 1..Len(p) : i < j => pos[i] < pos[j]

\* the tiers whose condition a term satisfies
TiersOf(term, prefix_lower, prefix_normalized) ==
    (IF StartsWith(term, prefix_lower) THEN {0} ELSE {})
    \cup (IF Len(prefix_normalized) >= 3 /\ StartsWith(term, prefix_normalized)
          THEN {1} ELSE {})
    \cup (IF Len(prefix_lower) >= 3 /\ IsSubstring(prefix_lower, term)
          THEN {2} ELSE {})
    \cup (IF Len(prefix_normalized) >= 3 /\ IsSubsequence(prefix_normalized, term)
          THEN {3} ELSE {})

\* the terms returned for a prefix on an index: every vocabulary term has
\* the lowest tier it satisfies, and `terms` are the first limit * 2
\* matching terms by (tier, idf)
TermsTiered(idx, prefix, limit, terms) ==
    LET pl == Lower(prefix)
        pn == OnlyAlnum(pl)
        vocab == {idx.idf[k].term : k \in 1..Len(idx.idf)}
        matching == {t \in vocab : TiersOf(t, pl, pn) # {}}
        tier(t) == MinOf(TiersOf(t, pl, pn))
        idf(t) == idx.idf[TermIdx(idx.idf, t)].idf
        before(t, u) == tier(t) < tier(u) \/ (tier(t) = tier(u) /\ idf(t) <= idf(u))
    IN  /\ \A t \in vocab :
              TermTier(t, pl, pn) = IF t \in matching THEN tier(t) ELSE 4
        /\ Len(terms) = Min(limit * 2, Cardinality(matching))
        /\ \A i \in 1..Len(terms) : terms[i] \in matching
        /\ \A i, j \in 1..Len(terms) : i < j =>
              terms[i] # terms[j] /\ before(terms[i], terms[j])
        /\ \A t \in matching : Contains(terms, t)
              \/ \A i \in 1..Len(terms) : before(terms[i], t)

\* C25: get_suggestions gives every matching vocabulary term the lowest
\* tier whose condition it satisfies (0 raw prefix, 1 squeezed prefix,
\* 2 substring, 3 subsequence) and orders the term suggestions by tier, then
\* by ascending idf; for the vocabulary {forloop, for, format} and the prefix
\* for, the three terms have tier 0 and come by ascending idf.
C25_TiersAndOrder ==
    [][\A b \in {_build_index(collection, index_cache, last_doc_count)} :
       \A prefix \in TierPrefixes, limit \in SuggestLimits :
          (GetSuggestions(b, prefix, limit) /\ b.idx # << >>)
              => TermsTiered(b.idx[1], prefix, limit, result'.terms)]_vars

\* C25 witness: the vocabulary is forloop, for, format with three different
\* idf values and the terms come back as for, format, forloop
C25_Witness ==
    /\ result.kind = "suggest"
    /\ result.k = 8
    /\ index_cache # << >>
    /\ Len(index_cache[1].idf) = 3
    /\ index_cache[1].idf[1].term = Forloop
    /\ index_cache[1].idf[1].idf > index_cache[1].idf[3].idf
    /\ index_cache[1].idf[3].idf > index_cache[1].idf[2].idf
    /\ \A k \in 1..3 : TermTier(index_cache[1].idf[k].term, For, For) = 0
    /\ result.terms = << For, Format, Forloop >>

\* terms of different tiers come back by tier, against their idf
C25_TierBeforeIdf ==
    /\ result.kind = "suggest"
    /\ index_cache # << >>
    /\ result.terms = << Loop, Forloop >>
    /\ index_cache[1].idf[TermIdx(index_cache[1].idf, Loop)].idf
          > index_cache[1].idf[TermIdx(index_cache[1].idf, Forloop)].idf


(***************************************************************************)
(* The nodes of the persisted job                                          *)
(***************************************************************************)
\* nodes and visited of a job go together, and no node is left crawling
NodesMatchVisited(job) ==
    /\ Len(job.nodes) = Len(job.visited)
    /\ \A i \in 1..Len(job.nodes) :
          /\ job.nodes[i].url = job.visited[i]
          /\ job.nodes[i].status \in {"completed", "error"}
          /\ job.nodes[i].status = "completed" =>
                /\ job.nodes[i].title # NoTitle
                /\ job.nodes[i].linkCount >= 0

\* C26: in the job persisted after any sequence of returned
\* process_job_batch calls, nodes and visited have the same length, the
\* i-th node is the node of the i-th visited URL, every node is completed
\* or error (none is left crawling), and a completed node has its title
\* and linkCount.
C26_NodesMatchVisited ==
    jobs_collection # << >> => NodesMatchVisited(Stored)

\* C26 witness: calls have returned and the persisted job has a completed
\* node and an error node
C26_Witness ==
    /\ jobs_collection # << >>
    /\ inv.pc = "idle"
    /\ ret # << >>
    /\ \E i, j \in 1..Len(Stored.nodes) :
          /\ Stored.nodes[i].status = "completed"
          /\ Stored.nodes[j].status = "error"
    /\ Len(Stored.visited) >= 3


(***************************************************************************)
(* The crawl tree of a job                                                 *)
(***************************************************************************)
\* e (a node or a queue entry) is the root: the start URL, no parent
IsRoot(job, e) ==
    e.url = job.start_url /\ e.parent = NoUrl /\ e.depth = 0

\* the parent of e is a completed node among the first n nodes, one level up
HasParentAmong(job, e, n) ==
    \E j \in 1..n :
        /\ job.nodes[j].url = e.parent
        /\ job.nodes[j].status = "completed"
        /\ job.nodes[j].depth = e.depth - 1

\* nodes and queue of a job make a tree rooted at the start URL
CrawlTree(job) ==
    /\ \A i \in 1..Len(job.nodes) :
          IF i = 1 THEN IsRoot(job, job.nodes[i])
          ELSE /\ job.nodes[i].parent # NoUrl
               /\ job.nodes[i].depth # 0
               /\ HasParentAmong(job, job.nodes[i], i - 1)
    /\ \A k \in 1..Len(job.queue) :
          IF job.nodes = << >> THEN IsRoot(job, job.queue[k])
          ELSE /\ job.queue[k].parent # NoUrl
               /\ HasParentAmong(job, job.queue[k], Len(job.nodes))

\* C27: in every job state the nodes form a tree rooted at the start URL:
\* only the start URL's node has parent None and depth 0, every other node
\* has as parent the url of an earlier completed node of depth one less,
\* and so has every queue entry.
C27_CrawlTree ==
    /\ jobs_collection # << >> => CrawlTree(Stored)
    /\ inv.pc = "loop" => CrawlTree(inv.job[1])

\* C27 witness: a node of depth 2 under a node of depth 1, with entries
\* still in the queue
C27_Witness ==
    /\ inv.pc = "loop"
    /\ inv.job[1].queue # << >>
    /\ \E i, j \in 1..Len(inv.job[1].nodes) :
          /\ j < i
          /\ inv.job[1].nodes[i].depth = 2
          /\ inv.job[1].nodes[j].depth = 1
          /\ inv.job[1].nodes[i].parent = inv.job[1].nodes[j].url


(***************************************************************************)
(* The depth limit                                                         *)
(***************************************************************************)
\* every entry of a list of nodes or fetches is at most max_depth deep
DepthsWithin(entries, max_depth) ==
    \A i \in 1..Len(entries) : entries[i].depth <= max_depth

\* C28: with max_depth >= 0 no URL deeper than max_depth is fetched: every
\* node process_job_batch records and every node WebCrawler.crawl sends has
\* depth <= max_depth.
C28_DepthWithinMax ==
    /\ jobs_collection # << >> =>
          /\ Stored.max_depth >= 0
          /\ DepthsWithin(Stored.nodes, Stored.max_depth)
          /\ DepthsWithin(fetchLog, Stored.max_depth)
    /\ inv.pc = "loop" => DepthsWithin(inv.job[1].nodes, inv.job[1].max_depth)
    /\ crawler.pc # "idle" =>
          /\ crawler.max_depth >= 0
          /\ DepthsWithin(ws_fetches, crawler.max_depth)

\* C28 witness: a job of max_depth 1 has ended below max_pages with an
\* empty queue, though its page of depth 1 had links
C28_Witness ==
    /\ jobs_collection # << >>
    /\ inv.pc = "idle"
    /\ IsCompleted(Stored)
    /\ Stored.max_depth = 1
    /\ Len(Stored.visited) < Stored.max_pages
    /\ \E i \in 1..Len(Stored.nodes) :
          /\ Stored.nodes[i].depth = 1
          /\ Stored.nodes[i].status = "completed"
          /\ Stored.nodes[i].linkCount > 0

\* a session of max_depth 0 has dropped the entries of depth 1 it had queued
C28_SessionDroppedDeepEntries ==
    /\ crawler.pc # "idle"
    /\ crawler.max_depth = 0
    /\ crawler.max_pages > 1
    /\ crawler.page_count = 1
    /\ crawler.queue = << >>
    /\ Len(ws_fetches) = 1


(***************************************************************************)
(* A call of process_job_batch that is cut off between its two writes: the *)
(* process ends (a serverless time limit, a crash) inside the loop.        *)
(***************************************************************************)
MaxAborts == 2           \* at most MaxAborts calls are cut off

\* the call ends inside the loop: its locals are lost, nothing is written
Abort ==
    /\ inv.pc = "loop"
    /\ aborts < MaxAborts
    /\ aborts' = aborts + 1
    /\ inv' = IdleInv
    /\ ops' = {}
    /\ UNCHANGED <<site, jobs_collection, pages_collection, ret, fetchLog,
                   searchVars, apiVars, wsVars, other, norm, crawlVars>>

NextAbort ==
    \/ \E d \in 0..1, m \in 1..3 : CreateJob(SharedSite, d, m)
    \/ \E b \in 1..MaxBatch : BatchStart(b)
    \/ LoopSkipVisited
    \/ \E o \in {"ok", "http_error"} : LoopCrawl(o)
    \/ BatchFinish(FALSE)
    \/ inv.processed >= 1 /\ BatchFinish(TRUE)
    \/ BatchOnCompleted
    \/ Abort

\* the calls that are not cut off go on, and the caller keeps calling
NextReturning ==
    \/ \E b \in 1..MaxBatch : BatchStart(b)
    \/ LoopSkipVisited
    \/ \E o \in {"ok", "http_error"} : LoopCrawl(o)
    \/ BatchFinish(FALSE)
    \/ inv.processed >= 1 /\ BatchFinish(TRUE)

SpecAbort == Init /\ [][NextAbort]_vars /\ WF_vars(NextReturning)

\* the job record is written by create_job, by the first update of a call
\* (status running, nothing else) and by its last update
TwoWrites ==
    jobs_collection' # jobs_collection =>
        \/ jobs_collection = << >>
        \/ /\ inv.pc = "idle"
           /\ inv'.pc = "loop"
           /\ jobs_collection' = << [Stored EXCEPT !.status = "running"] >>
        \/ /\ inv.pc = "loop"
           /\ inv'.pc = "idle"
           /\ aborts' = aborts
           /\ ret' # << >>

\* a call cut off leaves the job as it was found, in status running
AbortKeepsJob ==
    aborts' # aborts =>
        /\ jobs_collection' = << [inv.found[1] EXCEPT !.status = "running"] >>
        /\ ~IsCompleted(jobs_collection'[1])

\* crawled_pages holds no url twice
NoPageTwice ==
    \A i, j \in 1..Len(pages_collection) :
        i # j => pages_collection[i].url # pages_collection[j].url

\* C29: process_job_batch writes the job twice, status running at the start
\* and the whole state at the end; a call cut off between the two leaves
\* queue, visited, nodes and stats as they were before it, with status
\* running, and later calls still bring the job to completed without
\* storing a page twice.
C29_AbortedCallLosesNothing ==
    /\ [][TwoWrites]_vars
    /\ [][AbortKeepsJob]_vars
    /\ []NoPageTwice
    /\ (jobs_collection # << >>) ~> (jobs_collection # << >> /\ IsCompleted(Stored))

\* C29 witness: a call was cut off after it had stored a page, and the job
\* is completed all the same, with that page stored once
C29_Witness ==
    /\ aborts >= 1
    /\ jobs_collection # << >>
    /\ IsCompleted(Stored)
    /\ Len(fetchLog) > Len(Stored.visited)
    /\ Len(pages_collection) >= 2


(***************************************************************************)
(* The visited set of a streaming session                                  *)
(***************************************************************************)
\* no URL was requested twice by the session
NoUrlFetchedTwice ==
    \A i, j \in 1..Len(ws_fetches) :
        i # j => ws_fetches[i].url # ws_fetches[j].url

\* C30: within one streaming session WebCrawler.crawl fetches no URL twice,
\* visited never holds more than min(max_pages, 50) URLs, and the branch
\* that trims visited to 50 entries is never taken, so that no visited URL
\* is forgotten.
C30_VisitedNeverTrimmed ==
    /\ NoUrlFetchedTwice
    /\ crawler.pc # "idle" =>
          /\ crawler.max_pages <= WsMaxPagesCap
          /\ Cardinality(crawler.visited) <= crawler.max_pages
          /\ crawler.trims = 0
          /\ \A i \in 1..Len(ws_fetches) : ws_fetches[i].url \in crawler.visited

\* C30 witness: the tenth page of a session is done (page_count % 10 == 0)
\* and visited is at max_pages, every URL of it fetched once
C30_Witness ==
    /\ crawler.pc # "idle"
    /\ crawler.page_count = TrimEvery
    /\ Cardinality(crawler.visited) = crawler.max_pages
    /\ Len(ws_fetches) = crawler.max_pages
    /\ crawler.trims = 0

====
